---- MODULE Spec2Model ----
(***************************************************************************)
(* Model of pgx-utils/src/sql_entity_graph/pgx_sql.rs: PgxSql::build       *)
(* (classification of the entity stream, the node phase, the connector     *)
(* passes) and PgxSql::to_sql (the topological sort of the built graph).   *)
(*                                                                         *)
(* Strings are sequences of one-character strings, so that split("::"),    *)
(* ends_with, to_lowercase and concatenation are computed, not assumed.    *)
(* A NodeIndex is the 1-based position of the node in `nodes` (petgraph    *)
(* counts from 0).  A HashMap is the sequence of its (item, index) entries *)
(* in the map's iteration order, which is an arbitrary permutation.        *)
(* An Option is a sequence of length 0 (None) or 1 (Some).                 *)
(***************************************************************************)
EXTENDS Integers, Sequences, FiniteSets, Bags, TLC

\* Largest number of non-root entities in the input stream.
MaxEntities == 3

----------------------------------------------------------------------------
(* Strings *)

sep == <<":", ":">>

EndsWith(s, suffix) ==
    /\ Len(suffix) <= Len(s)
    /\ SubSeq(s, Len(s) - Len(suffix) + 1, Len(s)) = suffix

RECURSIVE SplitFrom(_, _, _)
SplitFrom(s, i, cur) ==
    IF i > Len(s) THEN << cur >>
    ELSE IF i < Len(s) /\ s[i] = ":" /\ s[i + 1] = ":"
         THEN << cur >> \o SplitFrom(s, i + 2, << >>)
         ELSE SplitFrom(s, i + 1, Append(cur, s[i]))

\* path.split("::").collect::<Vec<_>>()
Split(path) == SplitFrom(path, 1, << >>)

RECURSIVE Join(_)
\* segments.join("::")
Join(segments) ==
    IF Len(segments) = 0 THEN << >>
    ELSE IF Len(segments) = 1 THEN segments[1]
    ELSE segments[1] \o sep \o Join(Tail(segments))

Upper == << "A", "B", "C", "D", "E", "F", "G", "H", "I", "J", "K", "L", "M",
            "N", "O", "P", "Q", "R", "S", "T", "U", "V", "W", "X", "Y", "Z" >>
Lower == << "a", "b", "c", "d", "e", "f", "g", "h", "i", "j", "k", "l", "m",
            "n", "o", "p", "q", "r", "s", "t", "u", "v", "w", "x", "y", "z" >>

ToLowerChar(c) ==
    IF \E k \in DOMAIN Upper : Upper[k] = c
    THEN Lower[CHOOSE k \in DOMAIN Upper : Upper[k] = c]
    ELSE c

\* str::to_lowercase
ToLowercase(s) == [k \in DOMAIN s |-> ToLowerChar(s[k])]

----------------------------------------------------------------------------
(* Entities *)

None == << >>
Some(v) == << v >>

RequiredBy == "RequiredBy"
RequiredByArg == "RequiredByArg"
RequiredByReturn == "RequiredByReturn"

FullPath(path) == [tag |-> "FullPath", val |-> path]
Name(name) == [tag |-> "Name", val |-> name]

UsedTy(id, path, source) == [ty_id |-> id, full_path |-> path, ty_source |-> source]

ReturnNone == [tag |-> "None", ty |-> UsedTy(0, << >>, << >>), tys |-> << >>]
ReturnTrigger == [tag |-> "Trigger", ty |-> UsedTy(0, << >>, << >>), tys |-> << >>]
ReturnType(ty) == [tag |-> "Type", ty |-> ty, tys |-> << >>]
ReturnSetOf(ty) == [tag |-> "SetOf", ty |-> ty, tys |-> << >>]
ReturnIterated(tys) == [tag |-> "Iterated", ty |-> UsedTy(0, << >>, << >>), tys |-> tys]

AttrRequires(refs) == [tag |-> "Requires", requirements |-> refs, schema |-> << >>]
AttrSchema(name) == [tag |-> "Schema", requirements |-> << >>, schema |-> name]
AttrOther == [tag |-> "Other", requirements |-> << >>, schema |-> << >>]

SqlDeclaredType(name) == [tag |-> "Type", name |-> name]
SqlDeclaredEnum(name) == [tag |-> "Enum", name |-> name]

Blank ==
    [kind |-> "", name |-> << >>, unaliased_name |-> << >>, function_name |-> << >>,
     module_path |-> << >>, full_path |-> << >>, id |-> 0, ty_id |-> 0,
     bootstrap |-> FALSE, finalize |-> FALSE, requires |-> << >>, creates |-> {},
     fn_args |-> << >>, fn_return |-> ReturnNone, extern_attrs |-> << >>,
     args |-> << >>, direct_args |-> None, mstype |-> None, sfunc |-> << >>,
     finalfunc |-> None, combinefunc |-> None, serialfunc |-> None,
     deserialfunc |-> None, msfunc |-> None, minvfunc |-> None,
     mfinalfunc |-> None, sortop |-> None,
     relocatable |-> FALSE, schema |-> None]

ExtensionRoot(relocatable, schema) ==
    [Blank EXCEPT !.kind = "ExtensionRoot", !.relocatable = relocatable, !.schema = schema]

Schema(name, module_path) ==
    [Blank EXCEPT !.kind = "Schema", !.name = name, !.module_path = module_path]

CustomSql(name, module_path, bootstrap, finalize, requires, creates) ==
    [Blank EXCEPT !.kind = "CustomSql", !.name = name, !.module_path = module_path,
                  !.bootstrap = bootstrap, !.finalize = finalize,
                  !.requires = requires, !.creates = creates]

Type(id, name, module_path) ==
    [Blank EXCEPT !.kind = "Type", !.id = id, !.name = name, !.module_path = module_path,
                  !.full_path = module_path \o sep \o name]

Enum(id, name, module_path) ==
    [Blank EXCEPT !.kind = "Enum", !.id = id, !.name = name, !.module_path = module_path,
                  !.full_path = module_path \o sep \o name]

Function(name, module_path, fn_args, fn_return, extern_attrs) ==
    [Blank EXCEPT !.kind = "Function", !.name = name, !.unaliased_name = name,
                  !.module_path = module_path, !.full_path = module_path \o sep \o name,
                  !.fn_args = fn_args, !.fn_return = fn_return,
                  !.extern_attrs = extern_attrs]

Ord(id, name, module_path) ==
    [Blank EXCEPT !.kind = "Ord", !.id = id, !.name = name, !.module_path = module_path,
                  !.full_path = module_path \o sep \o name]

Hash(id, name, module_path) ==
    [Blank EXCEPT !.kind = "Hash", !.id = id, !.name = name, !.module_path = module_path,
                  !.full_path = module_path \o sep \o name]

Aggregate(name, module_path, ty_id, args, direct_args, mstype, sfunc) ==
    [Blank EXCEPT !.kind = "Aggregate", !.name = name, !.module_path = module_path,
                  !.full_path = module_path \o sep \o name, !.ty_id = ty_id,
                  !.args = args, !.direct_args = direct_args, !.mstype = mstype,
                  !.sfunc = sfunc]

Trigger(function_name, module_path) ==
    [Blank EXCEPT !.kind = "Trigger", !.function_name = function_name,
                  !.module_path = module_path,
                  !.full_path = module_path \o sep \o function_name]

\* The entities an input stream is drawn from.  The position of an entity in
\* this sequence is its rank in the total order entities.sort() uses.
Entities ==
    << ExtensionRoot(FALSE, None),
       Schema(<<"s">>, <<"m">>),
       CustomSql(<<"b">>, <<"m">>, TRUE, FALSE, << >>, {}),
       CustomSql(<<"z">>, <<"x">>, FALSE, TRUE, << >>, {}),
       CustomSql(<<"w">>, <<"x">>, TRUE, TRUE, << >>, {}),
       CustomSql(<<"a">>, <<"x">>, FALSE, FALSE, << Name(<<"c">>) >>, {}),
       CustomSql(<<"c">>, <<"x">>, FALSE, FALSE, << Name(<<"a">>) >>, {}),
       CustomSql(<<"u">>, <<"x">>, FALSE, FALSE,
                 << FullPath(<<"m", ":", ":", "T">>) >>, {SqlDeclaredType(<<"i">>)}),
       Type(1, <<"T">>, <<"m">>),
       Enum(2, <<"T">>, <<"m">>),
       Function(<<"f">>, <<"m">>,
                << UsedTy(1, <<"m", ":", ":", "T">>, <<"T">>) >>,
                ReturnType(UsedTy(1, <<"m", ":", ":", "T">>, <<"T">>)), << >>),
       Function(<<"g">>, <<"m">>,
                << UsedTy(9, <<"i">>, <<"i">>) >>,
                ReturnIterated(<< UsedTy(9, <<"i">>, <<"j">>),
                                  UsedTy(2, <<"m", ":", ":", "T">>, <<"T">>) >>),
                << >>),
       Function(<<"h">>, <<"m">>,
                << UsedTy(9, <<"i">>, <<"i">>), UsedTy(9, <<"i">>, <<"i">>) >>,
                ReturnSetOf(UsedTy(9, <<"i">>, <<"i">>)), << AttrOther >>),
       Function(<<"r">>, <<"m">>, << >>, ReturnTrigger,
                << AttrRequires(<< FullPath(<<"f">>) >>) >>),
       Aggregate(<<"p">>, <<"m">>, 1, << UsedTy(9, <<"i">>, <<"i">>) >>,
                 None, None, <<"h">>),
       Aggregate(<<"q">>, <<"m">>, 3, << UsedTy(1, <<"m", ":", ":", "T">>, <<"T">>) >>,
                 Some(<< UsedTy(9, <<"i">>, <<"i">>) >>),
                 Some(UsedTy(8, <<"j">>, <<"j">>)), <<"h">>),
       Ord(1, <<"T">>, <<"m">>),
       Hash(1, <<"T">>, <<"m">>),
       Trigger(<<"t">>, <<"m">>) >>

\* The entities for the explicit references: `requires` by name and by path, and
\* schema attributes.  In sort order, like Entities.
References ==
    << ExtensionRoot(FALSE, None),
       Schema(<<"s">>, <<"m">>),
       Schema(<<"n">>, <<"m", ":", ":", "T">>),
       Schema(<<"v">>, <<"x">>),
       CustomSql(<<"a">>, <<"x">>, FALSE, FALSE,
                 << Name(<<"c">>), FullPath(<<"m">>) >>, {}),
       CustomSql(<<"c">>, <<"x">>, FALSE, FALSE, << >>, {}),
       CustomSql(<<"u">>, <<"x">>, FALSE, FALSE,
                 << FullPath(<<"m", ":", ":", "T">>) >>, {}),
       Type(1, <<"T">>, <<"m">>),
       Enum(2, <<"T">>, <<"m">>),
       Function(<<"T">>, <<"m">>, << >>, ReturnNone, << >>),
       Function(<<"f">>, <<"m">>, << >>, ReturnNone, << >>),
       Function(<<"r">>, <<"m">>, << >>, ReturnTrigger,
                << AttrRequires(<< FullPath(<<"f">>) >>) >>),
       Function(<<"k">>, <<"x">>, << >>, ReturnNone, << AttrSchema(<<"s">>) >>),
       Function(<<"d">>, <<"x">>, << >>, ReturnNone,
                << AttrSchema(<<"s">>), AttrSchema(<<"v">>) >>),
       Trigger(<<"T">>, <<"m">>) >>

\* The entities for membership by module path and lookups by function name: two
\* schemas of one module, operator functions of an Ord, support functions of an
\* aggregate.  In sort order, like Entities.
Members ==
    << ExtensionRoot(FALSE, None),
       Schema(<<"s">>, <<"m">>),
       Schema(<<"v">>, <<"m">>),
       CustomSql(<<"y">>, <<"m">>, FALSE, FALSE, << >>, {}),
       Type(1, <<"T">>, <<"m">>),
       Enum(2, <<"E">>, <<"m">>),
       Function(<<"t", "_", "l", "t">>, <<"m">>, << >>, ReturnNone, << >>),
       Function(<<"t", "_", "l", "t">>, <<"x">>, << >>, ReturnNone, << >>),
       Function(<<"t", "_", "g", "e">>, <<"m">>, << >>, ReturnNone, << >>),
       Function(<<"h">>, <<"m">>, << >>, ReturnNone, << >>),
       Function(<<"h">>, <<"x">>, << >>, ReturnNone, << >>),
       Function(<<"e">>, <<"m">>, << >>, ReturnNone, << >>),
       Function(<<"k">>, <<"m">>, << >>, ReturnNone, << AttrSchema(<<"v">>) >>),
       [Aggregate(<<"o">>, <<"m">>, 3, << >>, None, None, <<"h">>)
           EXCEPT !.finalfunc = Some(<<"e">>)],
       Aggregate(<<"p">>, <<"m">>, 3, << >>, None, None, <<"h">>),
       Ord(1, <<"T">>, <<"m">>),
       Hash(1, <<"T">>, <<"m">>),
       Trigger(<<"t">>, <<"m">>) >>

\* The entities for inputs that hold an entity more than once: each declared
\* entity appears twice, the copies next to each other as entities.sort() leaves
\* them.
Duplicates ==
    << ExtensionRoot(FALSE, None),
       Schema(<<"s">>, <<"m">>),
       Schema(<<"s">>, <<"m">>),
       CustomSql(<<"y">>, <<"m">>, FALSE, FALSE, << >>, {}),
       CustomSql(<<"y">>, <<"m">>, FALSE, FALSE, << >>, {}),
       Type(1, <<"T">>, <<"m">>),
       Type(1, <<"T">>, <<"m">>),
       Function(<<"g">>, <<"m">>, << UsedTy(9, <<"i">>, <<"i">>) >>, ReturnNone, << >>),
       Function(<<"g">>, <<"m">>, << UsedTy(9, <<"i">>, <<"i">>) >>, ReturnNone, << >>),
       Trigger(<<"t">>, <<"m">>),
       Trigger(<<"t">>, <<"m">>) >>

\* The entities for the type usages of functions: fragments that declare a type or
\* an enum in SQL, a type and an enum of one identity, and functions that use
\* declared and undeclared types as arguments and returns.  In sort order.
Usages ==
    << ExtensionRoot(FALSE, None),
       CustomSql(<<"y">>, <<"x">>, FALSE, FALSE, << >>,
                 {SqlDeclaredType(<<"i">>), SqlDeclaredEnum(<<"j">>)}),
       CustomSql(<<"c">>, <<"x">>, FALSE, FALSE, << >>, {SqlDeclaredType(<<"i">>)}),
       CustomSql(<<"d">>, <<"x">>, FALSE, FALSE, << >>,
                 {SqlDeclaredType(<<"m", ":", ":", "T">>), SqlDeclaredEnum(<<"E">>)}),
       Type(1, <<"T">>, <<"m">>),
       Enum(1, <<"D">>, <<"m">>),
       Enum(2, <<"E">>, <<"m">>),
       Function(<<"f">>, <<"m">>,
                << UsedTy(1, <<"m", ":", ":", "T">>, <<"T">>) >>,
                ReturnType(UsedTy(1, <<"m", ":", ":", "T">>, <<"T">>)), << >>),
       Function(<<"g">>, <<"m">>,
                << UsedTy(9, <<"i">>, <<"i">>) >>,
                ReturnIterated(<< UsedTy(9, <<"i">>, <<"j">>),
                                  UsedTy(2, <<"m", ":", ":", "E">>, <<"E">>) >>),
                << >>),
       Function(<<"h">>, <<"m">>,
                << UsedTy(9, <<"i">>, <<"i">>), UsedTy(9, <<"i">>, <<"i">>) >>,
                ReturnSetOf(UsedTy(9, <<"i">>, <<"i">>)), << >>) >>

\* The entities for the type usages of aggregates: a type and an enum of one
\* identity, the state function, and aggregates that use declared and undeclared
\* types as arguments, direct arguments and moving-state type.  In sort order.
AggregateUsages ==
    << ExtensionRoot(FALSE, None),
       Type(1, <<"T">>, <<"m">>),
       Enum(1, <<"D">>, <<"m">>),
       Enum(2, <<"E">>, <<"m">>),
       Function(<<"h">>, <<"m">>, << >>, ReturnNone, << >>),
       Aggregate(<<"a">>, <<"m">>, 3, << UsedTy(1, <<"m", ":", ":", "T">>, <<"T">>) >>,
                 None, None, <<"h">>),
       Aggregate(<<"b">>, <<"m">>, 3, << UsedTy(9, <<"i">>, <<"i">>) >>,
                 Some(<< UsedTy(9, <<"i">>, <<"i">>) >>),
                 Some(UsedTy(2, <<"m", ":", ":", "E">>, <<"E">>)), <<"h">>),
       Aggregate(<<"c">>, <<"m">>, 3, << UsedTy(2, <<"m", ":", ":", "E">>, <<"E">>) >>,
                 Some(<< UsedTy(1, <<"m", ":", ":", "T">>, <<"T">>) >>), None, <<"h">>),
       Aggregate(<<"q">>, <<"m">>, 3, << >>, None,
                 Some(UsedTy(8, <<"j">>, <<"j">>)), <<"h">>) >>

\* The entities for the equality function of a Hash entity: functions named like
\* it in its module and elsewhere, in lower and in upper case.  In sort order.
HashEquality ==
    << ExtensionRoot(FALSE, None),
       Type(1, <<"T">>, <<"m">>),
       Function(<<"t", "_", "e", "q">>, <<"m">>, << >>, ReturnNone, << >>),
       Function(<<"t", "_", "e", "q">>, <<"x">>, << >>, ReturnNone, << >>),
       Function(<<"T", "_", "e", "q">>, <<"m">>, << >>, ReturnNone, << >>),
       Function(<<"t", "_", "h", "a", "s", "h">>, <<"m">>, << >>, ReturnNone, << >>),
       Function(<<"u", "_", "e", "q">>, <<"m">>, << >>, ReturnNone, << >>),
       Ord(1, <<"T">>, <<"m">>),
       Hash(1, <<"T">>, <<"m">>),
       Hash(2, <<"u">>, <<"m">>) >>

\* The entities for the schema alias of a node: control entities that are
\* relocatable, that name a schema and that do neither, two schemas, a bootstrap
\* fragment, a type in a schema's module and a function outside of every schema
\* that uses an undeclared type.  In sort order.
Aliases ==
    << ExtensionRoot(FALSE, None),
       ExtensionRoot(FALSE, Some(<<"p">>)),
       ExtensionRoot(TRUE, None),
       Schema(<<"s">>, <<"m">>),
       Schema(<<"v">>, <<"x">>),
       CustomSql(<<"b">>, <<"m">>, TRUE, FALSE, << >>, {}),
       Type(1, <<"T">>, <<"m">>),
       Function(<<"g">>, <<"z">>, << UsedTy(9, <<"i">>, <<"i">>) >>, ReturnNone, << >>) >>

----------------------------------------------------------------------------
(* State *)

VARIABLES
    input,            \* the entities given to build, each under its rank in Entities
    pc,               \* the operation build / to_sql runs next
    control,          \* Option<ControlFile>: the rank of the control entity
    graph,            \* StableGraph: [nodes: sequence of nodes, edges: bag of <<a, b, w>>]
    graph_root,       \* NodeIndex of the root (0 before it exists)
    graph_bootstrap,  \* Option<NodeIndex>
    graph_finalize,   \* Option<NodeIndex>
    schemas, extension_sqls, externs, types, builtin_types, enums, ords, hashes,
    aggregates, triggers,   \* the mapped_* HashMaps: sequences of [item, index]
    build_result,     \* "none", "Ok", "Err" or "Panic": what build returned
    sql_result        \* what to_sql returned: [tag, order, node]

tables == << schemas, extension_sqls, externs, types, builtin_types, enums, ords,
             hashes, aggregates, triggers >>

vars == << input, pc, control, graph, graph_root, graph_bootstrap, graph_finalize,
           tables, build_result, sql_result >>

Ent(u) == input[u]

RECURSIVE SortedSeq(_)
\* entities.sort(): the ranks of S in increasing order
SortedSeq(S) ==
    IF S = {} THEN << >>
    ELSE LET least == CHOOSE u \in S : \A v \in S : u <= v
         IN << least >> \o SortedSeq(S \ {least})

\* The per-kind Vec that build's classification loop fills, in sorted order.
Bucket(kind) == SortedSeq({u \in DOMAIN input : Ent(u).kind = kind})

\* The stream taken as it arrives, without sorting.
sort_as_given(entities) == entities

RECURSIVE sort(_)
\* entities.sort() on the collected stream: a stable sort by the entities' total
\* order, an entity going before the later ones that are not less than it.
sort(entities) ==
    IF entities = << >> THEN << >>
    ELSE LET first == Head(entities)
             rest == sort(Tail(entities))
         IN SelectSeq(rest, LAMBDA v : v < first) \o << first >>
                \o SelectSeq(rest, LAMBDA v : ~(v < first))

\* build's classification loop: the entities of one kind, in the order of the Vec.
classify(entities, kind) == SelectSeq(entities, LAMBDA u : Ent(u).kind = kind)

\* The iteration orders a HashMap holding `entries` can have.
IterationOrders(entries) ==
    LET n == Len(entries)
        bijections == {p \in [1..n -> 1..n] : \A i, j \in 1..n : i # j => p[i] # p[j]}
    IN {[i \in 1..n |-> entries[p[i]]] : p \in bijections}

Entry(item, index) == [item |-> item, index |-> index]

\* HashMap::insert: an equal key keeps its slot and takes the new value.
Insert(mapped, item, index) ==
    IF \E k \in DOMAIN mapped : Ent(mapped[k].item) = Ent(item)
    THEN [k \in DOMAIN mapped |->
            IF Ent(mapped[k].item) = Ent(item) THEN Entry(mapped[k].item, index)
            ELSE mapped[k]]
    ELSE Append(mapped, Entry(item, index))

EmptyGraph == [nodes |-> << >>, edges |-> EmptyBag]

EntityNode(u) == [kind |-> Ent(u).kind, item |-> u, path |-> << >>]
BuiltinTypeNode(path) == [kind |-> "BuiltinType", item |-> 0, path |-> path]

\* StableGraph::add_node; the new node's index is Len(g.nodes) + 1.
add_node(g, node) == [g EXCEPT !.nodes = Append(@, node)]

\* StableGraph::add_edge: parallel edges are kept.
add_edge(g, a, b, w) == [g EXCEPT !.edges = @ (+) SetToBag({<< a, b, w >>})]

\* The first entry of a map, in its iteration order, that passes Test.
FirstMatch(mapped, Test(_)) ==
    LET hits == SelectSeq(mapped, Test)
    IN IF hits = << >> THEN None ELSE Some(hits[1])

\* PostgresTypeEntity::id_matches / PostgresEnumEntity::id_matches
id_matches(u, ty_id) == Ent(u).id = ty_id

\* ExtensionSqlEntity::has_sql_declared_entity
has_sql_declared_entity(u, identifier) == identifier \in Ent(u).creates

----------------------------------------------------------------------------
(* Node phase *)

\* build_base_edges without the edge from the bootstrap fragment.
build_base_edges_without_bootstrap(g, index, root, bootstrap, finalize) ==
    LET g1 == add_edge(g, root, index, RequiredBy)
    IN IF finalize # None THEN add_edge(g1, index, finalize[1], RequiredBy) ELSE g1

build_base_edges(g, index, root, bootstrap, finalize) ==
    LET g1 == add_edge(g, root, index, RequiredBy)
        g2 == IF bootstrap # None THEN add_edge(g1, bootstrap[1], index, RequiredBy) ELSE g1
    IN IF finalize # None THEN add_edge(g2, index, finalize[1], RequiredBy) ELSE g2

RECURSIVE extension_sqls_nodes_last_finalize(_, _, _)
\* The first loop of initialize_extension_sqls without the check for a second
\* finalize fragment: the last one marked wins.
extension_sqls_nodes_last_finalize(st, vec, i) ==
    IF i > Len(vec) \/ st.err THEN st
    ELSE LET item == vec[i]
             index == Len(st.graph.nodes) + 1
             g == add_node(st.graph, EntityNode(item))
             mapped == Insert(st.mapped, item, index)
             dupBootstrap == Ent(item).bootstrap /\ st.bootstrap # None
             bootstrap == IF Ent(item).bootstrap THEN Some(index) ELSE st.bootstrap
             finalize == IF Ent(item).finalize THEN Some(index) ELSE st.finalize
         IN extension_sqls_nodes_last_finalize(
                [err |-> dupBootstrap, graph |-> g, mapped |-> mapped,
                 bootstrap |-> bootstrap, finalize |-> finalize], vec, i + 1)

RECURSIVE extension_sqls_nodes(_, _, _)
\* initialize_extension_sqls, first loop.  st = [err, graph, mapped, bootstrap, finalize]
extension_sqls_nodes(st, vec, i) ==
    IF i > Len(vec) \/ st.err THEN st
    ELSE LET item == vec[i]
             index == Len(st.graph.nodes) + 1
             g == add_node(st.graph, EntityNode(item))
             mapped == Insert(st.mapped, item, index)
             dupBootstrap == Ent(item).bootstrap /\ st.bootstrap # None
             bootstrap == IF Ent(item).bootstrap THEN Some(index) ELSE st.bootstrap
             dupFinalize == Ent(item).finalize /\ st.finalize # None
             finalize == IF Ent(item).finalize THEN Some(index) ELSE st.finalize
         IN extension_sqls_nodes(
                [err |-> dupBootstrap \/ dupFinalize, graph |-> g, mapped |-> mapped,
                 bootstrap |-> bootstrap, finalize |-> finalize], vec, i + 1)

RECURSIVE extension_sqls_edges_of_every(_, _, _, _, _, _)
\* The second loop of initialize_extension_sqls with the anchor edges added for
\* the anchors themselves too.
extension_sqls_edges_of_every(g, mapped, i, root, bootstrap, finalize) ==
    IF i > Len(mapped) THEN g
    ELSE extension_sqls_edges_of_every(
             build_base_edges(g, mapped[i].index, root, bootstrap, finalize),
             mapped, i + 1, root, bootstrap, finalize)

RECURSIVE extension_sqls_edges(_, _, _, _, _, _)
\* initialize_extension_sqls, second loop: over the map's entries
extension_sqls_edges(g, mapped, i, root, bootstrap, finalize) ==
    IF i > Len(mapped) THEN g
    ELSE LET item == mapped[i].item
             index == mapped[i].index
             g1 == add_edge(g, root, index, RequiredBy)
             g2 == IF ~Ent(item).bootstrap /\ bootstrap # None
                   THEN add_edge(g1, bootstrap[1], index, RequiredBy) ELSE g1
             g3 == IF ~Ent(item).finalize /\ finalize # None
                   THEN add_edge(g2, index, finalize[1], RequiredBy) ELSE g2
         IN extension_sqls_edges(g3, mapped, i + 1, root, bootstrap, finalize)

initialize_extension_sqls(g, root, vec) ==
    LET st == extension_sqls_nodes(
                  [err |-> FALSE, graph |-> g, mapped |-> << >>,
                   bootstrap |-> None, finalize |-> None], vec, 1)
    IN IF st.err THEN st
       ELSE [st EXCEPT !.graph = extension_sqls_edges(st.graph, st.mapped, 1, root,
                                                      st.bootstrap, st.finalize)]

RECURSIVE initialize_schemas_without_finalize(_, _, _, _, _)
\* initialize_schemas without the edge to the finalize fragment.
initialize_schemas_without_finalize(st, bootstrap, finalize, vec, i) ==
    IF i > Len(vec) THEN st
    ELSE LET item == vec[i]
             index == Len(st.graph.nodes) + 1
             g == add_node(st.graph, EntityNode(item))
             g1 == IF bootstrap # None
                   THEN add_edge(g, bootstrap[1], index, RequiredBy) ELSE g
         IN initialize_schemas_without_finalize(
                [graph |-> g1, mapped |-> Insert(st.mapped, item, index)],
                bootstrap, finalize, vec, i + 1)

RECURSIVE initialize_schemas(_, _, _, _, _)
\* st = [graph, mapped]
initialize_schemas(st, bootstrap, finalize, vec, i) ==
    IF i > Len(vec) THEN st
    ELSE LET item == vec[i]
             index == Len(st.graph.nodes) + 1
             g == add_node(st.graph, EntityNode(item))
             g1 == IF bootstrap # None
                   THEN add_edge(g, bootstrap[1], index, RequiredBy) ELSE g
             g2 == IF finalize # None
                   THEN add_edge(g1, index, finalize[1], RequiredBy) ELSE g1
         IN initialize_schemas([graph |-> g2, mapped |-> Insert(st.mapped, item, index)],
                               bootstrap, finalize, vec, i + 1)

RECURSIVE initialize_entities(_, _, _, _, _, _)
\* initialize_enums, initialize_types, initialize_ords, initialize_hashes and
\* initialize_triggers: one node, one map entry and the base edges per item.
initialize_entities(st, root, bootstrap, finalize, vec, i) ==
    IF i > Len(vec) THEN st
    ELSE LET item == vec[i]
             index == Len(st.graph.nodes) + 1
             g == add_node(st.graph, EntityNode(item))
         IN initialize_entities(
                [graph |-> build_base_edges(g, index, root, bootstrap, finalize),
                 mapped |-> Insert(st.mapped, item, index)],
                root, bootstrap, finalize, vec, i + 1)

\* Whether a used type matches a declared type or a declared enum.
declared(ty_id, mapped_types, mapped_enums) ==
    \/ \E k \in DOMAIN mapped_types : id_matches(mapped_types[k].item, ty_id)
    \/ \E k \in DOMAIN mapped_enums : id_matches(mapped_enums[k].item, ty_id)

\* A placeholder added on every use of a path, not only on the first.
entry_insert(st, key) ==
    [graph |-> add_node(st.graph, BuiltinTypeNode(key)),
     builtin |-> Append(SelectSeq(st.builtin, LAMBDA e : e.item # key),
                        Entry(key, Len(st.graph.nodes) + 1))]

\* mapped_builtin_types.entry(key).or_insert_with(|| graph.add_node(BuiltinType(key)))
\* st = [graph, builtin]
entry_or_insert(st, key) ==
    IF \E k \in DOMAIN st.builtin : st.builtin[k].item = key THEN st
    ELSE [graph |-> add_node(st.graph, BuiltinTypeNode(key)),
          builtin |-> Append(st.builtin, Entry(key, Len(st.graph.nodes) + 1))]

RECURSIVE entries_or_insert(_, _, _)
entries_or_insert(st, keys, i) ==
    IF i > Len(keys) THEN st
    ELSE entries_or_insert(entry_or_insert(st, keys[i]), keys, i + 1)

\* The keys of initialize_externs with full_path as the key of an Iterated item too.
extern_placeholder_keys_by_full_path(item, mapped_types, mapped_enums) ==
    LET undeclared(ty) == ~declared(ty.ty_id, mapped_types, mapped_enums)
        path(ty) == ty.full_path
        fn_args == SelectSeq(Ent(item).fn_args, undeclared)
        fn_return == Ent(item).fn_return
        tys == SelectSeq(fn_return.tys, undeclared)
    IN [k \in DOMAIN fn_args |-> path(fn_args[k])]
       \o (CASE fn_return.tag \in {"None", "Trigger"} -> << >>
             [] fn_return.tag \in {"Type", "SetOf"} ->
                    IF undeclared(fn_return.ty) THEN << path(fn_return.ty) >> ELSE << >>
             [] fn_return.tag = "Iterated" -> [k \in DOMAIN tys |-> path(tys[k])])

\* The keys initialize_externs asks a placeholder for, in the order of its loops:
\* full_path for an argument and a Type / SetOf return, ty_source for an Iterated item.
extern_placeholder_keys(item, mapped_types, mapped_enums) ==
    LET undeclared(ty) == ~declared(ty.ty_id, mapped_types, mapped_enums)
        path(ty) == ty.full_path
        source(ty) == ty.ty_source
        fn_args == SelectSeq(Ent(item).fn_args, undeclared)
        fn_return == Ent(item).fn_return
        tys == SelectSeq(fn_return.tys, undeclared)
    IN [k \in DOMAIN fn_args |-> path(fn_args[k])]
       \o (CASE fn_return.tag \in {"None", "Trigger"} -> << >>
             [] fn_return.tag \in {"Type", "SetOf"} ->
                    IF undeclared(fn_return.ty) THEN << path(fn_return.ty) >> ELSE << >>
             [] fn_return.tag = "Iterated" -> [k \in DOMAIN tys |-> source(tys[k])])

RECURSIVE initialize_externs(_, _, _, _, _, _, _, _)
\* st = [graph, mapped, builtin]
initialize_externs(st, root, bootstrap, finalize, vec, mapped_types, mapped_enums, i) ==
    IF i > Len(vec) THEN st
    ELSE LET item == vec[i]
             index == Len(st.graph.nodes) + 1
             g == build_base_edges(add_node(st.graph, EntityNode(item)), index,
                                   root, bootstrap, finalize)
             b == entries_or_insert([graph |-> g, builtin |-> st.builtin],
                                    extern_placeholder_keys(item, mapped_types, mapped_enums),
                                    1)
         IN initialize_externs(
                [graph |-> b.graph, mapped |-> Insert(st.mapped, item, index),
                 builtin |-> b.builtin],
                root, bootstrap, finalize, vec, mapped_types, mapped_enums, i + 1)

\* The keys initialize_aggregates asks a placeholder for: the arguments only.
aggregate_placeholder_keys(item, mapped_types, mapped_enums) ==
    LET undeclared(ty) == ~declared(ty.ty_id, mapped_types, mapped_enums)
        args == SelectSeq(Ent(item).args, undeclared)
    IN [k \in DOMAIN args |-> args[k].full_path]

RECURSIVE initialize_aggregates(_, _, _, _, _, _, _, _)
\* st = [graph, mapped, builtin]
initialize_aggregates(st, root, bootstrap, finalize, vec, mapped_enums, mapped_types, i) ==
    IF i > Len(vec) THEN st
    ELSE LET item == vec[i]
             index == Len(st.graph.nodes) + 1
             g == add_node(st.graph, EntityNode(item))
             b == entries_or_insert([graph |-> g, builtin |-> st.builtin],
                                    aggregate_placeholder_keys(item, mapped_types,
                                                               mapped_enums), 1)
         IN initialize_aggregates(
                [graph |-> build_base_edges(b.graph, index, root, bootstrap, finalize),
                 mapped |-> Insert(st.mapped, item, index), builtin |-> b.builtin],
                root, bootstrap, finalize, vec, mapped_enums, mapped_types, i + 1)

----------------------------------------------------------------------------
(* Edge phase.  The connector passes read the mapped_* maps of the node phase, *)
(* which are the state variables by then; a pass yields [status, graph] with   *)
(* status "Ok", "Err" (an eyre error) or "Panic" (a failed expect).            *)

RECURSIVE add_edges(_, _)
add_edges(g, es) ==
    IF es = << >> THEN g
    ELSE add_edges(add_edge(g, es[1][1], es[1][2], es[1][3]), Tail(es))

\* find_positioning_ref_target searching the enums before the types.
find_positioning_ref_target_enums_first(positioning_ref) ==
    IF positioning_ref.tag = "FullPath"
    THEN LET path == positioning_ref.val
             segments == Split(path)
             last_segment == segments[Len(segments)]
             module_path == Join(SubSeq(segments, 1, Len(segments) - 1))
             isNamed(e) == /\ last_segment = Ent(e.item).name
                           /\ EndsWith(Ent(e.item).module_path, module_path)
             isExtern(e) == /\ last_segment = Ent(e.item).unaliased_name
                            /\ EndsWith(Ent(e.item).module_path, module_path)
             isSchema(e) == EndsWith(Ent(e.item).module_path, path)
             isTrigger(e) == /\ last_segment = Ent(e.item).function_name
                             /\ EndsWith(Ent(e.item).module_path, module_path)
             hits == FirstMatch(enums, isNamed) \o FirstMatch(types, isNamed)
                     \o FirstMatch(externs, isExtern) \o FirstMatch(schemas, isSchema)
                     \o FirstMatch(triggers, isTrigger)
         IN IF hits = << >> THEN None ELSE Some(hits[1].index)
    ELSE LET isNamed(e) == Ent(e.item).name = positioning_ref.val
             hit == FirstMatch(extension_sqls, isNamed)
         IN IF hit = None THEN None ELSE Some(hit[1].index)

\* find_positioning_ref_target that also looks a label up among types and schemas.
find_positioning_ref_target_name_any_kind(positioning_ref) ==
    IF positioning_ref.tag = "FullPath"
    THEN LET path == positioning_ref.val
             segments == Split(path)
             last_segment == segments[Len(segments)]
             module_path == Join(SubSeq(segments, 1, Len(segments) - 1))
             isType(e) == /\ last_segment = Ent(e.item).name
                          /\ EndsWith(Ent(e.item).module_path, module_path)
             isEnum(e) == /\ last_segment = Ent(e.item).name
                          /\ EndsWith(Ent(e.item).module_path, module_path)
             isExtern(e) == /\ last_segment = Ent(e.item).unaliased_name
                            /\ EndsWith(Ent(e.item).module_path, module_path)
             isSchema(e) == EndsWith(Ent(e.item).module_path, path)
             isTrigger(e) == /\ last_segment = Ent(e.item).function_name
                             /\ EndsWith(Ent(e.item).module_path, module_path)
             hits == FirstMatch(types, isType) \o FirstMatch(enums, isEnum)
                     \o FirstMatch(externs, isExtern) \o FirstMatch(schemas, isSchema)
                     \o FirstMatch(triggers, isTrigger)
         IN IF hits = << >> THEN None ELSE Some(hits[1].index)
    ELSE LET isNamed(e) == Ent(e.item).name = positioning_ref.val
             hits == FirstMatch(extension_sqls, isNamed) \o FirstMatch(types, isNamed)
                     \o FirstMatch(schemas, isNamed)
         IN IF hits = << >> THEN None ELSE Some(hits[1].index)

find_positioning_ref_target(positioning_ref) ==
    IF positioning_ref.tag = "FullPath"
    THEN LET path == positioning_ref.val
             segments == Split(path)
             last_segment == segments[Len(segments)]
             module_path == Join(SubSeq(segments, 1, Len(segments) - 1))
             isType(e) == /\ last_segment = Ent(e.item).name
                          /\ EndsWith(Ent(e.item).module_path, module_path)
             isEnum(e) == /\ last_segment = Ent(e.item).name
                          /\ EndsWith(Ent(e.item).module_path, module_path)
             isExtern(e) == /\ last_segment = Ent(e.item).unaliased_name
                            /\ EndsWith(Ent(e.item).module_path, module_path)
             isSchema(e) == EndsWith(Ent(e.item).module_path, path)
             isTrigger(e) == /\ last_segment = Ent(e.item).function_name
                             /\ EndsWith(Ent(e.item).module_path, module_path)
             hits == FirstMatch(types, isType) \o FirstMatch(enums, isEnum)
                     \o FirstMatch(externs, isExtern) \o FirstMatch(schemas, isSchema)
                     \o FirstMatch(triggers, isTrigger)
         IN IF hits = << >> THEN None ELSE Some(hits[1].index)
    ELSE LET isNamed(e) == Ent(e.item).name = positioning_ref.val
             hit == FirstMatch(extension_sqls, isNamed)
         IN IF hit = None THEN None ELSE Some(hit[1].index)

\* make_schema_connection that connects every schema of the module path.
make_schema_connection_every(g, index, module_path) ==
    LET inModule(e) == module_path = Ent(e.item).module_path
        hits == SelectSeq(schemas, inModule)
    IN [graph |-> add_edges(g, [k \in DOMAIN hits |-> << hits[k].index, index, RequiredBy >>]),
        found |-> hits # << >>]

\* yields [graph, found]
make_schema_connection(g, index, module_path) ==
    LET inModule(e) == module_path = Ent(e.item).module_path
        hit == FirstMatch(schemas, inModule)
    IN IF hit = None THEN [graph |-> g, found |-> FALSE]
       ELSE [graph |-> add_edge(g, hit[1].index, index, RequiredBy), found |-> TRUE]

\* make_extern_connection that matches a function by the last segment of the path.
make_extern_connection_by_name(g, index, full_path) ==
    LET segments == Split(full_path)
        isNamed(e) == Ent(e.item).name = segments[Len(segments)]
        hit == FirstMatch(externs, isNamed)
    IN IF hit = None THEN [status |-> "Err", graph |-> g]
       ELSE [status |-> "Ok", graph |-> add_edge(g, hit[1].index, index, RequiredBy)]

make_extern_connection(g, index, full_path) ==
    LET isPath(e) == full_path = Ent(e.item).full_path
        hit == FirstMatch(externs, isPath)
    IN IF hit = None THEN [status |-> "Err", graph |-> g]
       ELSE [status |-> "Ok", graph |-> add_edge(g, hit[1].index, index, RequiredBy)]

\* yields [graph, found]
make_type_or_enum_connection(g, index, ty_id) ==
    LET matches(e) == id_matches(e.item, ty_id)
        ty == FirstMatch(types, matches)
        en == FirstMatch(enums, matches)
        g1 == IF ty # None THEN add_edge(g, ty[1].index, index, RequiredBy) ELSE g
        g2 == IF en # None THEN add_edge(g1, en[1].index, index, RequiredBy) ELSE g1
    IN [graph |-> g2, found |-> ty # None \/ en # None]

\* connect_schemas that connects no schema to the root.
connect_schemas_without_root(g, root, i) == g

RECURSIVE connect_schemas(_, _, _)
connect_schemas(g, root, i) ==
    IF i > Len(schemas) THEN g
    ELSE connect_schemas(add_edge(g, root, schemas[i].index, RequiredBy), root, i + 1)

RECURSIVE connect_requires_without_edge(_, _, _, _)
\* The loop over `requires` that resolves each reference and adds no edge.
connect_requires_without_edge(st, index, requires, i) ==
    IF i > Len(requires) \/ st.status # "Ok" THEN st
    ELSE LET target == find_positioning_ref_target(requires[i])
         IN connect_requires_without_edge(
                IF target # None THEN st ELSE [st EXCEPT !.status = "Err"],
                index, requires, i + 1)

RECURSIVE connect_requires_when_found(_, _, _, _)
\* The loop over `requires` that skips a reference without a target.
connect_requires_when_found(st, index, requires, i) ==
    IF i > Len(requires) \/ st.status # "Ok" THEN st
    ELSE LET target == find_positioning_ref_target(requires[i])
         IN connect_requires_when_found(
                IF target # None
                THEN [st EXCEPT !.graph = add_edge(@, target[1], index, RequiredBy)]
                ELSE st,
                index, requires, i + 1)

RECURSIVE connect_requires(_, _, _, _)
\* the loop over a list of `requires` references; st = [status, graph]
connect_requires(st, index, requires, i) ==
    IF i > Len(requires) \/ st.status # "Ok" THEN st
    ELSE LET target == find_positioning_ref_target(requires[i])
         IN connect_requires(
                IF target # None
                THEN [st EXCEPT !.graph = add_edge(@, target[1], index, RequiredBy)]
                ELSE [st EXCEPT !.status = "Err"],
                index, requires, i + 1)

RECURSIVE connect_extension_sqls(_, _)
connect_extension_sqls(st, i) ==
    IF i > Len(extension_sqls) \/ st.status # "Ok" THEN st
    ELSE LET item == extension_sqls[i].item
             index == extension_sqls[i].index
             g == make_schema_connection(st.graph, index, Ent(item).module_path).graph
         IN connect_extension_sqls(
                connect_requires([st EXCEPT !.graph = g], index, Ent(item).requires, 1),
                i + 1)

\* connect_enums, connect_types and connect_triggers that add a node of their own.
connect_with_schema_adding_node(g, mapped, i) == add_node(g, BuiltinTypeNode(<< >>))

\* connect_enums, connect_types and connect_triggers that add no schema edge.
connect_with_schema_without_edge(g, mapped, i) == g

RECURSIVE connect_with_schema(_, _, _)
\* connect_enums, connect_types and connect_triggers: the schema edge of each item
connect_with_schema(g, mapped, i) ==
    IF i > Len(mapped) THEN g
    ELSE connect_with_schema(
             make_schema_connection(g, mapped[i].index,
                                    Ent(mapped[i].item).module_path).graph,
             mapped, i + 1)

RECURSIVE connect_extern_attrs(_, _, _, _)
\* connect_externs, the loop over item.extern_attrs;
\* st = [status, graph, found_schema_declaration]
connect_extern_attrs(st, index, extern_attrs, i) ==
    IF i > Len(extern_attrs) \/ st.status # "Ok" THEN st
    ELSE LET attr == extern_attrs[i]
             required == connect_requires([status |-> "Ok", graph |-> st.graph],
                                          index, attr.requirements, 1)
             isDeclared(e) == Ent(e.item).name = attr.schema
             named == SelectSeq(schemas, isDeclared)
             found == st.found_schema_declaration \/ named # << >>
         IN connect_extern_attrs(
                CASE attr.tag = "Requires" ->
                         [st EXCEPT !.status = required.status, !.graph = required.graph]
                  [] attr.tag = "Schema" ->
                         [status |-> IF found THEN "Ok" ELSE "Err",
                          graph |-> add_edges(st.graph,
                                       [k \in DOMAIN named |->
                                          << named[k].index, index, RequiredBy >>]),
                          found_schema_declaration |-> found]
                  [] OTHER -> st,
                index, extern_attrs, i + 1)

\* The wiring of one used type that connects the declaring fragments in place of
\* the builtin placeholder.
connect_used_ty_fragment_instead(g, index, ty_id, key, relationship) ==
    LET matches(e) == id_matches(e.item, ty_id)
        ty == FirstMatch(types, matches)
        en == FirstMatch(enums, matches)
        isKey(e) == e.item = key
        builtin == FirstMatch(builtin_types, isKey)
        declares(e) == \/ has_sql_declared_entity(e.item, SqlDeclaredType(key))
                       \/ has_sql_declared_entity(e.item, SqlDeclaredEnum(key))
        declaring == SelectSeq(extension_sqls, declares)
    IN IF ty # None
       THEN [status |-> "Ok", graph |-> add_edge(g, ty[1].index, index, relationship)]
       ELSE IF en # None
       THEN [status |-> "Ok", graph |-> add_edge(g, en[1].index, index, relationship)]
       ELSE IF builtin = None
       THEN [status |-> "Panic", graph |-> g]
       ELSE IF declaring = << >>
       THEN [status |-> "Ok", graph |-> add_edge(g, builtin[1].index, index, relationship)]
       ELSE [status |-> "Ok",
             graph |-> add_edges(g, [k \in DOMAIN declaring |->
                                       << declaring[k].index, index, RequiredByArg >>])]

\* The wiring of one used type that gives every edge the kind RequiredByArg.
connect_used_ty_as_arg(g, index, ty_id, key, relationship) ==
    LET matches(e) == id_matches(e.item, ty_id)
        ty == FirstMatch(types, matches)
        en == FirstMatch(enums, matches)
        isKey(e) == e.item = key
        builtin == FirstMatch(builtin_types, isKey)
        declares(e) == \/ has_sql_declared_entity(e.item, SqlDeclaredType(key))
                       \/ has_sql_declared_entity(e.item, SqlDeclaredEnum(key))
        declaring == SelectSeq(extension_sqls, declares)
    IN IF ty # None
       THEN [status |-> "Ok", graph |-> add_edge(g, ty[1].index, index, RequiredByArg)]
       ELSE IF en # None
       THEN [status |-> "Ok", graph |-> add_edge(g, en[1].index, index, RequiredByArg)]
       ELSE IF builtin = None
       THEN [status |-> "Panic", graph |-> g]
       ELSE [status |-> "Ok",
             graph |-> add_edges(add_edge(g, builtin[1].index, index, RequiredByArg),
                                 [k \in DOMAIN declaring |->
                                    << declaring[k].index, index, RequiredByArg >>])]

\* The wiring of one used type with the placeholder's edge turned round: from the
\* function into the placeholder.
connect_used_ty_into_builtin(g, index, ty_id, key, relationship) ==
    LET matches(e) == id_matches(e.item, ty_id)
        ty == FirstMatch(types, matches)
        en == FirstMatch(enums, matches)
        isKey(e) == e.item = key
        builtin == FirstMatch(builtin_types, isKey)
        declares(e) == \/ has_sql_declared_entity(e.item, SqlDeclaredType(key))
                       \/ has_sql_declared_entity(e.item, SqlDeclaredEnum(key))
        declaring == SelectSeq(extension_sqls, declares)
    IN IF ty # None
       THEN [status |-> "Ok", graph |-> add_edge(g, ty[1].index, index, relationship)]
       ELSE IF en # None
       THEN [status |-> "Ok", graph |-> add_edge(g, en[1].index, index, relationship)]
       ELSE IF builtin = None
       THEN [status |-> "Panic", graph |-> g]
       ELSE [status |-> "Ok",
             graph |-> add_edges(add_edge(g, index, builtin[1].index, relationship),
                                 [k \in DOMAIN declaring |->
                                    << declaring[k].index, index, RequiredByArg >>])]

\* connect_externs, the wiring of one used type (an argument, a Type / SetOf return
\* or an Iterated return item) under its placeholder key; yields [status, graph]
connect_used_ty(g, index, ty_id, key, relationship) ==
    LET matches(e) == id_matches(e.item, ty_id)
        ty == FirstMatch(types, matches)
        en == FirstMatch(enums, matches)
        isKey(e) == e.item = key
        builtin == FirstMatch(builtin_types, isKey)
        declares(e) == \/ has_sql_declared_entity(e.item, SqlDeclaredType(key))
                       \/ has_sql_declared_entity(e.item, SqlDeclaredEnum(key))
        declaring == SelectSeq(extension_sqls, declares)
    IN IF ty # None
       THEN [status |-> "Ok", graph |-> add_edge(g, ty[1].index, index, relationship)]
       ELSE IF en # None
       THEN [status |-> "Ok", graph |-> add_edge(g, en[1].index, index, relationship)]
       ELSE IF builtin = None
       THEN [status |-> "Panic", graph |-> g]
       ELSE [status |-> "Ok",
             graph |-> add_edges(add_edge(g, builtin[1].index, index, relationship),
                                 [k \in DOMAIN declaring |->
                                    << declaring[k].index, index, RequiredByArg >>])]

RECURSIVE connect_used_tys(_, _, _, _, _)
\* usages: a sequence of [ty_id, key]; st = [status, graph]
connect_used_tys(st, index, usages, relationship, i) ==
    IF i > Len(usages) \/ st.status # "Ok" THEN st
    ELSE connect_used_tys(
             connect_used_ty(st.graph, index, usages[i].ty_id, usages[i].key, relationship),
             index, usages, relationship, i + 1)

\* The body of the loop for one function that looks for the Hash entity of its
\* name in every module.
connect_extern_eq_any_module(g, item, index) ==
    LET attrs == connect_extern_attrs(
                     [status |-> "Ok", graph |-> g, found_schema_declaration |-> FALSE],
                     index, Ent(item).extern_attrs, 1)
        g1 == IF attrs.found_schema_declaration THEN attrs.graph
              ELSE make_schema_connection(attrs.graph, index, Ent(item).module_path).graph
        isEq(e) == Ent(item).name = ToLowercase(Ent(e.item).name) \o <<"_", "e", "q">>
        eqHashes == SelectSeq(hashes, isEq)
        g2 == add_edges(g1, [k \in DOMAIN eqHashes |->
                                << index, eqHashes[k].index, RequiredBy >>])
        fn_args == Ent(item).fn_args
        fn_return == Ent(item).fn_return
        argUsages == [k \in DOMAIN fn_args |->
                        [ty_id |-> fn_args[k].ty_id, key |-> fn_args[k].full_path]]
        returnUsages ==
            CASE fn_return.tag \in {"None", "Trigger"} -> << >>
              [] fn_return.tag \in {"Type", "SetOf"} ->
                     << [ty_id |-> fn_return.ty.ty_id, key |-> fn_return.ty.full_path] >>
              [] fn_return.tag = "Iterated" ->
                     [k \in DOMAIN fn_return.tys |->
                        [ty_id |-> fn_return.tys[k].ty_id,
                         key |-> fn_return.tys[k].ty_source]]
        args == connect_used_tys([status |-> "Ok", graph |-> g2], index, argUsages,
                                 RequiredByArg, 1)
    IN IF attrs.status # "Ok" THEN [status |-> attrs.status, graph |-> attrs.graph]
       ELSE connect_used_tys(args, index, returnUsages, RequiredByReturn, 1)

\* connect_externs, the body of the loop for one function
connect_extern(g, item, index) ==
    LET attrs == connect_extern_attrs(
                     [status |-> "Ok", graph |-> g, found_schema_declaration |-> FALSE],
                     index, Ent(item).extern_attrs, 1)
        g1 == IF attrs.found_schema_declaration THEN attrs.graph
              ELSE make_schema_connection(attrs.graph, index, Ent(item).module_path).graph
        isEq(e) == /\ Ent(item).module_path = Ent(e.item).module_path
                   /\ Ent(item).name = ToLowercase(Ent(e.item).name) \o <<"_", "e", "q">>
        eqHashes == SelectSeq(hashes, isEq)
        g2 == add_edges(g1, [k \in DOMAIN eqHashes |->
                                << index, eqHashes[k].index, RequiredBy >>])
        fn_args == Ent(item).fn_args
        fn_return == Ent(item).fn_return
        argUsages == [k \in DOMAIN fn_args |->
                        [ty_id |-> fn_args[k].ty_id, key |-> fn_args[k].full_path]]
        returnUsages ==
            CASE fn_return.tag \in {"None", "Trigger"} -> << >>
              [] fn_return.tag \in {"Type", "SetOf"} ->
                     << [ty_id |-> fn_return.ty.ty_id, key |-> fn_return.ty.full_path] >>
              [] fn_return.tag = "Iterated" ->
                     [k \in DOMAIN fn_return.tys |->
                        [ty_id |-> fn_return.tys[k].ty_id,
                         key |-> fn_return.tys[k].ty_source]]
        args == connect_used_tys([status |-> "Ok", graph |-> g2], index, argUsages,
                                 RequiredByArg, 1)
    IN IF attrs.status # "Ok" THEN [status |-> attrs.status, graph |-> attrs.graph]
       ELSE connect_used_tys(args, index, returnUsages, RequiredByReturn, 1)

RECURSIVE connect_externs(_, _)
connect_externs(st, i) ==
    IF i > Len(externs) \/ st.status # "Ok" THEN st
    ELSE connect_externs(connect_extern(st.graph, externs[i].item, externs[i].index), i + 1)

\* PostgresOrdEntity::cmp_fn_name, lt_fn_name, le_fn_name, eq_fn_name, gt_fn_name,
\* ge_fn_name
ord_fn_names(item) ==
    {ToLowercase(Ent(item).name) \o <<"_">> \o suffix :
        suffix \in {<<"c", "m", "p">>, <<"l", "t">>, <<"l", "e">>, <<"e", "q">>,
                    <<"g", "t">>, <<"g", "e">>}}

\* PostgresHashEntity::fn_name
hash_fn_name(item) == ToLowercase(Ent(item).name) \o <<"_", "h", "a", "s", "h">>

RECURSIVE connect_ords_any_module(_, _)
\* connect_ords that matches the operator functions by name alone.
connect_ords_any_module(g, i) ==
    IF i > Len(ords) THEN g
    ELSE LET item == ords[i].item
             index == ords[i].index
             g1 == make_schema_connection(g, index, Ent(item).module_path).graph
             g2 == make_type_or_enum_connection(g1, index, Ent(item).id).graph
             fn_matches(e) == Ent(e.item).name \in ord_fn_names(item)
             fns == SelectSeq(externs, fn_matches)
         IN connect_ords_any_module(
                add_edges(g2, [k \in DOMAIN fns |-> << fns[k].index, index, RequiredBy >>]),
                i + 1)

RECURSIVE connect_ords(_, _)
connect_ords(g, i) ==
    IF i > Len(ords) THEN g
    ELSE LET item == ords[i].item
             index == ords[i].index
             g1 == make_schema_connection(g, index, Ent(item).module_path).graph
             g2 == make_type_or_enum_connection(g1, index, Ent(item).id).graph
             fn_matches(e) == /\ Ent(item).module_path = Ent(e.item).module_path
                              /\ Ent(e.item).name \in ord_fn_names(item)
             fns == SelectSeq(externs, fn_matches)
         IN connect_ords(
                add_edges(g2, [k \in DOMAIN fns |-> << fns[k].index, index, RequiredBy >>]),
                i + 1)

RECURSIVE connect_hashes(_, _)
connect_hashes(g, i) ==
    IF i > Len(hashes) THEN g
    ELSE LET item == hashes[i].item
             index == hashes[i].index
             g1 == make_schema_connection(g, index, Ent(item).module_path).graph
             g2 == make_type_or_enum_connection(g1, index, Ent(item).id).graph
             hash_fn_matches(e) == /\ Ent(item).module_path = Ent(e.item).module_path
                                   /\ Ent(e.item).name = hash_fn_name(item)
             fn == FirstMatch(externs, hash_fn_matches)
         IN connect_hashes(
                IF fn = None THEN g2 ELSE add_edge(g2, fn[1].index, index, RequiredBy),
                i + 1)

RECURSIVE connect_aggregate_used_tys(_, _, _, _)
\* connect_aggregate, the loops over args, direct_args and mstype; st = [status, graph]
connect_aggregate_used_tys(st, index, tys, i) ==
    IF i > Len(tys) \/ st.status # "Ok" THEN st
    ELSE LET made == make_type_or_enum_connection(st.graph, index, tys[i].ty_id)
             isKey(e) == e.item = tys[i].full_path
             builtin == FirstMatch(builtin_types, isKey)
         IN connect_aggregate_used_tys(
                IF made.found THEN [status |-> "Ok", graph |-> made.graph]
                ELSE IF builtin = None THEN [status |-> "Panic", graph |-> made.graph]
                ELSE [status |-> "Ok",
                      graph |-> add_edge(made.graph, builtin[1].index, index,
                                         RequiredByArg)],
                index, tys, i + 1)

RECURSIVE connect_aggregate_externs(_, _, _, _, _)
\* connect_aggregate, the make_extern_connection calls; st = [status, graph]
connect_aggregate_externs(st, index, module_path, names, i) ==
    IF i > Len(names) \/ st.status # "Ok" THEN st
    ELSE connect_aggregate_externs(
             make_extern_connection(st.graph, index, module_path \o sep \o names[i]),
             index, module_path, names, i + 1)

connect_aggregate(g, item, index) ==
    LET a == Ent(item)
        g1 == make_schema_connection(g, index, a.module_path).graph
        g2 == make_type_or_enum_connection(g1, index, a.ty_id).graph
        direct_args == IF a.direct_args = None THEN << >> ELSE a.direct_args[1]
        used == connect_aggregate_used_tys([status |-> "Ok", graph |-> g2], index,
                                           a.args \o direct_args \o a.mstype, 1)
    IN connect_aggregate_externs(
           used, index, a.module_path,
           << a.sfunc >> \o a.finalfunc \o a.combinefunc \o a.serialfunc
               \o a.deserialfunc \o a.msfunc \o a.minvfunc \o a.mfinalfunc \o a.sortop,
           1)

RECURSIVE connect_aggregates(_, _)
connect_aggregates(st, i) ==
    IF i > Len(aggregates) \/ st.status # "Ok" THEN st
    ELSE connect_aggregates(
             connect_aggregate(st.graph, aggregates[i].item, aggregates[i].index), i + 1)

----------------------------------------------------------------------------
(* Linearization *)

Nodes(g) == 1..Len(g.nodes)
Edges(g) == BagToSet(g.edges)

\* The nodes of `remaining` with no incoming edge from a node of `remaining`.
Ready(g, remaining) ==
    {n \in remaining : ~\E e \in Edges(g) : e[2] = n /\ e[1] \in remaining}

RECURSIVE Linearizations(_, _, _)
\* Every order of `remaining`, appended to `order`, in which each edge's source
\* comes before its target.
Linearizations(g, order, remaining) ==
    IF remaining = {} THEN {order}
    ELSE UNION {Linearizations(g, Append(order, n), remaining \ {n}) :
                    n \in Ready(g, remaining)}

RECURSIVE ReachableFrom(_, _, _)
\* The nodes a path of one or more edges leads to from the nodes of `frontier`.
ReachableFrom(g, frontier, seen) ==
    LET next == {e[2] : e \in {d \in Edges(g) : d[1] \in frontier}} \ seen
    IN IF next = {} THEN seen ELSE ReachableFrom(g, next, seen \cup next)

OnCycle(g, n) == n \in ReachableFrom(g, {n}, {})

\* petgraph::algo::toposort(&self.graph, None): an order of all the nodes that
\* respects every edge, or Err(Cycle(node)) for a node on a cycle.
toposort(g) ==
    IF \E n \in Nodes(g) : OnCycle(g, n)
    THEN {[tag |-> "Err", order |-> << >>, node |-> n] : n \in {c \in Nodes(g) : OnCycle(g, c)}}
    ELSE {[tag |-> "Ok", order |-> order, node |-> 0] :
              order \in Linearizations(g, << >>, Nodes(g))}

----------------------------------------------------------------------------
(* Queries *)

extname == << "@", "e", "x", "t", "n", "a", "m", "e", "@" >>

\* PgxSql::schema_alias_of: the first value that the neighbors of the node yield,
\* a schema its name and the root its alias.  petgraph documents no order for
\* neighbors_undirected, so every neighbor that yields a value may be the first:
\* the operator gives the set of the results the call can have.
schema_alias_of(item_index) ==
    LET neighbors == {e[2] : e \in {x \in Edges(graph) : x[1] = item_index}}
                        \cup {e[1] : e \in {x \in Edges(graph) : x[2] = item_index}}
        yield(n) ==
            CASE graph.nodes[n].kind = "Schema" -> Some(Ent(graph.nodes[n].item).name)
              [] graph.nodes[n].kind = "ExtensionRoot" ->
                     IF ~Ent(graph.nodes[n].item).relocatable
                     THEN Ent(graph.nodes[n].item).schema
                     ELSE Some(extname)
              [] OTHER -> None
        yielded == {yield(n) : n \in neighbors} \ {None}
    IN IF yielded = {} THEN {None} ELSE yielded

\* PgxSql::schema_prefix_for: the results the call can have.
schema_prefix_for(target) ==
    {IF alias = None THEN << >> ELSE alias[1] \o <<".">> : alias \in schema_alias_of(target)}

----------------------------------------------------------------------------
(* Specification *)

RECURSIVE SubsetsUpTo(_, _)
SubsetsUpTo(S, k) ==
    IF k = 0 \/ S = {} THEN {{}}
    ELSE LET x == CHOOSE y \in S : TRUE
         IN SubsetsUpTo(S \ {x}, k)
            \cup {T \cup {x} : T \in SubsetsUpTo(S \ {x}, k - 1)}

Roots == {u \in DOMAIN Entities : Entities[u].kind = "ExtensionRoot"}

\* The input streams over the entities of U: any roots, and at most MaxEntities others.
Inputs(U) ==
    {S \cup R : S \in SubsetsUpTo(U \ Roots, MaxEntities), R \in SUBSET (U \cap Roots)}

\* The entities whose `requires` are a path reference are left to the resolver's
\* specification.
Core == {u \in DOMAIN Entities : Entities[u].name \notin {<<"u">>, <<"r">>}}

\* The input streams over the entities of `table`: any roots, and at most
\* MaxEntities others.
InputsFrom(table) ==
    LET roots == {u \in DOMAIN table : table[u].kind = "ExtensionRoot"}
    IN {S \cup R : S \in SubsetsUpTo(DOMAIN table \ roots, MaxEntities),
                   R \in SUBSET roots}

NoTables ==
    /\ schemas = << >> /\ extension_sqls = << >> /\ externs = << >> /\ types = << >>
    /\ builtin_types = << >> /\ enums = << >> /\ ords = << >> /\ hashes = << >>
    /\ aggregates = << >> /\ triggers = << >>

Init ==
    /\ \E S \in Inputs(Core) : input = [u \in S |-> Entities[u]]
    /\ pc = "build"
    /\ control = None
    /\ graph = EmptyGraph
    /\ graph_root = 0
    /\ graph_bootstrap = None
    /\ graph_finalize = None
    /\ NoTables
    /\ build_result = "none"
    /\ sql_result = [tag |-> "none", order |-> << >>, node |-> 0]

\* build is called on a stream of entities of `table`.
InitFrom(table) ==
    /\ \E S \in InputsFrom(table) : input = [u \in S |-> table[u]]
    /\ pc = "build"
    /\ control = None
    /\ graph = EmptyGraph
    /\ graph_root = 0
    /\ graph_bootstrap = None
    /\ graph_finalize = None
    /\ NoTables
    /\ build_result = "none"
    /\ sql_result = [tag |-> "none", order |-> << >>, node |-> 0]

InitReferences == InitFrom(References)

InitMembers == InitFrom(Members)

InitDuplicates == InitFrom(Duplicates)

InitUsages == InitFrom(Usages)

InitAliases == InitFrom(Aliases)

InitHashEquality == InitFrom(HashEquality)

\* The input streams over the entities of `table` for the aggregates: any roots,
\* any of the functions the aggregates name, and at most MaxEntities others.
InputsWithFunctions(table) ==
    LET free == {u \in DOMAIN table : table[u].kind \in {"ExtensionRoot", "Function"}}
    IN {S \cup R : S \in SubsetsUpTo(DOMAIN table \ free, MaxEntities),
                   R \in SUBSET free}

InitAggregateUsages ==
    /\ \E S \in InputsWithFunctions(AggregateUsages) :
          input = [u \in S |-> AggregateUsages[u]]
    /\ pc = "build"
    /\ control = None
    /\ graph = EmptyGraph
    /\ graph_root = 0
    /\ graph_bootstrap = None
    /\ graph_finalize = None
    /\ NoTables
    /\ build_result = "none"
    /\ sql_result = [tag |-> "none", order |-> << >>, node |-> 0]

\* build returns without a PgxSql: the graph and the maps are dropped.
Abort(result) ==
    /\ pc' = "done"
    /\ build_result' = result
    /\ control' = None
    /\ graph' = EmptyGraph
    /\ graph_root' = 0
    /\ graph_bootstrap' = None
    /\ graph_finalize' = None
    /\ schemas' = << >> /\ extension_sqls' = << >> /\ externs' = << >>
    /\ types' = << >> /\ builtin_types' = << >> /\ enums' = << >> /\ ords' = << >>
    /\ hashes' = << >> /\ aggregates' = << >> /\ triggers' = << >>
    /\ UNCHANGED << input, sql_result >>

\* build that returns the empty graph when the input has no control entity.
build_without_control ==
    /\ pc = "build"
    /\ LET controls == Bucket("ExtensionRoot")
       IN IF controls = << >>
          THEN /\ pc' = "done"
               /\ build_result' = "Ok"
               /\ UNCHANGED << input, control, graph, graph_root, graph_bootstrap,
                               graph_finalize, tables, sql_result >>
          ELSE /\ control' = Some(controls[Len(controls)])
               /\ graph' = add_node(graph, EntityNode(controls[Len(controls)]))
               /\ graph_root' = Len(graph.nodes) + 1
               /\ pc' = "initialize_extension_sqls"
               /\ UNCHANGED << input, graph_bootstrap, graph_finalize, tables,
                               build_result, sql_result >>

\* build, up to the root node: sort, classify, control.expect(..), add the root
Build ==
    /\ pc = "build"
    /\ LET controls == Bucket("ExtensionRoot")
       IN IF controls = << >> THEN Abort("Panic")
          ELSE /\ control' = Some(controls[Len(controls)])
               /\ graph' = add_node(graph, EntityNode(controls[Len(controls)]))
               /\ graph_root' = Len(graph.nodes) + 1
               /\ pc' = "initialize_extension_sqls"
               /\ UNCHANGED << input, graph_bootstrap, graph_finalize, tables,
                               build_result, sql_result >>

InitializeExtensionSqls ==
    /\ pc = "initialize_extension_sqls"
    /\ LET st == initialize_extension_sqls(graph, graph_root, Bucket("CustomSql"))
       IN IF st.err THEN Abort("Err")
          ELSE /\ graph' = st.graph
               /\ extension_sqls' \in IterationOrders(st.mapped)
               /\ graph_bootstrap' = st.bootstrap
               /\ graph_finalize' = st.finalize
               /\ pc' = "initialize_schemas"
               /\ UNCHANGED << input, control, graph_root, schemas, externs, types,
                               builtin_types, enums, ords, hashes, aggregates, triggers,
                               build_result, sql_result >>

InitializeSchemas ==
    /\ pc = "initialize_schemas"
    /\ LET st == initialize_schemas([graph |-> graph, mapped |-> << >>],
                                    graph_bootstrap, graph_finalize, Bucket("Schema"), 1)
       IN /\ graph' = st.graph
          /\ schemas' \in IterationOrders(st.mapped)
    /\ pc' = "initialize_enums"
    /\ UNCHANGED << input, control, graph_root, graph_bootstrap, graph_finalize,
                    extension_sqls, externs, types, builtin_types, enums, ords, hashes,
                    aggregates, triggers, build_result, sql_result >>

InitializeEnums ==
    /\ pc = "initialize_enums"
    /\ LET st == initialize_entities([graph |-> graph, mapped |-> << >>], graph_root,
                                     graph_bootstrap, graph_finalize, Bucket("Enum"), 1)
       IN /\ graph' = st.graph
          /\ enums' \in IterationOrders(st.mapped)
    /\ pc' = "initialize_types"
    /\ UNCHANGED << input, control, graph_root, graph_bootstrap, graph_finalize,
                    schemas, extension_sqls, externs, types, builtin_types, ords, hashes,
                    aggregates, triggers, build_result, sql_result >>

InitializeTypes ==
    /\ pc = "initialize_types"
    /\ LET st == initialize_entities([graph |-> graph, mapped |-> << >>], graph_root,
                                     graph_bootstrap, graph_finalize, Bucket("Type"), 1)
       IN /\ graph' = st.graph
          /\ types' \in IterationOrders(st.mapped)
    /\ pc' = "initialize_externs"
    /\ UNCHANGED << input, control, graph_root, graph_bootstrap, graph_finalize,
                    schemas, extension_sqls, externs, builtin_types, enums, ords, hashes,
                    aggregates, triggers, build_result, sql_result >>

InitializeExterns ==
    /\ pc = "initialize_externs"
    /\ LET st == initialize_externs(
                     [graph |-> graph, mapped |-> << >>, builtin |-> << >>], graph_root,
                     graph_bootstrap, graph_finalize, Bucket("Function"), types, enums, 1)
       IN /\ graph' = st.graph
          /\ externs' \in IterationOrders(st.mapped)
          /\ builtin_types' = st.builtin
    /\ pc' = "initialize_ords"
    /\ UNCHANGED << input, control, graph_root, graph_bootstrap, graph_finalize,
                    schemas, extension_sqls, types, enums, ords, hashes, aggregates,
                    triggers, build_result, sql_result >>

InitializeOrds ==
    /\ pc = "initialize_ords"
    /\ LET st == initialize_entities([graph |-> graph, mapped |-> << >>], graph_root,
                                     graph_bootstrap, graph_finalize, Bucket("Ord"), 1)
       IN /\ graph' = st.graph
          /\ ords' = st.mapped
    /\ pc' = "initialize_hashes"
    /\ UNCHANGED << input, control, graph_root, graph_bootstrap, graph_finalize,
                    schemas, extension_sqls, externs, types, builtin_types, enums, hashes,
                    aggregates, triggers, build_result, sql_result >>

InitializeHashes ==
    /\ pc = "initialize_hashes"
    /\ LET st == initialize_entities([graph |-> graph, mapped |-> << >>], graph_root,
                                     graph_bootstrap, graph_finalize, Bucket("Hash"), 1)
       IN /\ graph' = st.graph
          /\ hashes' = st.mapped
    /\ pc' = "initialize_aggregates"
    /\ UNCHANGED << input, control, graph_root, graph_bootstrap, graph_finalize,
                    schemas, extension_sqls, externs, types, builtin_types, enums, ords,
                    aggregates, triggers, build_result, sql_result >>

InitializeAggregates ==
    /\ pc = "initialize_aggregates"
    /\ LET st == initialize_aggregates(
                     [graph |-> graph, mapped |-> << >>, builtin |-> builtin_types],
                     graph_root, graph_bootstrap, graph_finalize, Bucket("Aggregate"),
                     enums, types, 1)
       IN /\ graph' = st.graph
          /\ aggregates' = st.mapped
          /\ builtin_types' = st.builtin
    /\ pc' = "initialize_triggers"
    /\ UNCHANGED << input, control, graph_root, graph_bootstrap, graph_finalize,
                    schemas, extension_sqls, externs, types, enums, ords, hashes,
                    triggers, build_result, sql_result >>

InitializeTriggers ==
    /\ pc = "initialize_triggers"
    /\ LET st == initialize_entities([graph |-> graph, mapped |-> << >>], graph_root,
                                     graph_bootstrap, graph_finalize, Bucket("Trigger"), 1)
       IN /\ graph' = st.graph
          /\ triggers' \in IterationOrders(st.mapped)
    /\ pc' = "connect_schemas"
    /\ UNCHANGED << input, control, graph_root, graph_bootstrap, graph_finalize,
                    schemas, extension_sqls, externs, types, builtin_types, enums, ords,
                    hashes, aggregates, build_result, sql_result >>

\* A connector pass that cannot fail: only the graph and the position change.
Connected(g, next) ==
    /\ graph' = g
    /\ pc' = next
    /\ UNCHANGED << input, control, graph_root, graph_bootstrap, graph_finalize, tables,
                    build_result, sql_result >>

\* A connector pass that can fail: st = [status, graph].
ConnectedOrFailed(st, next) ==
    IF st.status = "Ok" THEN Connected(st.graph, next) ELSE Abort(st.status)

ConnectSchemas ==
    /\ pc = "connect_schemas"
    /\ Connected(connect_schemas(graph, graph_root, 1), "connect_extension_sqls")

ConnectExtensionSqls ==
    /\ pc = "connect_extension_sqls"
    /\ ConnectedOrFailed(connect_extension_sqls([status |-> "Ok", graph |-> graph], 1),
                         "connect_enums")

ConnectEnums ==
    /\ pc = "connect_enums"
    /\ Connected(connect_with_schema(graph, enums, 1), "connect_types")

ConnectTypes ==
    /\ pc = "connect_types"
    /\ Connected(connect_with_schema(graph, types, 1), "connect_externs")

ConnectExterns ==
    /\ pc = "connect_externs"
    /\ ConnectedOrFailed(connect_externs([status |-> "Ok", graph |-> graph], 1),
                         "connect_ords")

ConnectOrds ==
    /\ pc = "connect_ords"
    /\ Connected(connect_ords(graph, 1), "connect_hashes")

ConnectHashes ==
    /\ pc = "connect_hashes"
    /\ Connected(connect_hashes(graph, 1), "connect_aggregates")

ConnectAggregates ==
    /\ pc = "connect_aggregates"
    /\ ConnectedOrFailed(connect_aggregates([status |-> "Ok", graph |-> graph], 1),
                         "connect_triggers")

\* connect_triggers, and build's Ok(this)
ConnectTriggers ==
    /\ pc = "connect_triggers"
    /\ graph' = connect_with_schema(graph, triggers, 1)
    /\ build_result' = "Ok"
    /\ pc' = "to_sql"
    /\ UNCHANGED << input, control, graph_root, graph_bootstrap, graph_finalize, tables,
                    sql_result >>

\* to_sql sorting by the RequiredBy edges only.
to_sql_required_by_only ==
    /\ pc = "to_sql"
    /\ sql_result' \in toposort([graph EXCEPT !.edges =
                                    SetToBag({e \in Edges(graph) : e[3] = RequiredBy})])
    /\ pc' = "done"
    /\ UNCHANGED << input, control, graph, graph_root, graph_bootstrap, graph_finalize,
                    tables, build_result >>

ToSql ==
    /\ pc = "to_sql"
    /\ sql_result' \in toposort(graph)
    /\ pc' = "done"
    /\ UNCHANGED << input, control, graph, graph_root, graph_bootstrap, graph_finalize,
                    tables, build_result >>

Next ==
    \/ Build
    \/ InitializeExtensionSqls
    \/ InitializeSchemas
    \/ InitializeEnums
    \/ InitializeTypes
    \/ InitializeExterns
    \/ InitializeOrds
    \/ InitializeHashes
    \/ InitializeAggregates
    \/ InitializeTriggers
    \/ ConnectSchemas
    \/ ConnectExtensionSqls
    \/ ConnectEnums
    \/ ConnectTypes
    \/ ConnectExterns
    \/ ConnectOrds
    \/ ConnectHashes
    \/ ConnectAggregates
    \/ ConnectTriggers
    \/ ToSql

Spec == Init /\ [][Next]_vars

SpecReferences == InitReferences /\ [][Next]_vars

SpecMembers == InitMembers /\ [][Next]_vars

SpecDuplicates == InitDuplicates /\ [][Next]_vars

SpecUsages == InitUsages /\ [][Next]_vars

SpecAliases == InitAliases /\ [][Next]_vars

SpecHashEquality == InitHashEquality /\ [][Next]_vars

SpecAggregateUsages == InitAggregateUsages /\ [][Next]_vars

----------------------------------------------------------------------------
(* Properties *)

Built == build_result = "Ok"
Linearized == sql_result.tag = "Ok"

\* The position of node n in a linearization.
Pos(order, n) == CHOOSE i \in DOMAIN order : order[i] = n

Before(a, b) == Pos(sql_result.order, a) < Pos(sql_result.order, b)

HasEdge(a, b, w) == << a, b, w >> \in Edges(graph)

IsBuiltin(n) == graph.nodes[n].kind = "BuiltinType"

BuiltinNodes == {n \in Nodes(graph) : IsBuiltin(n)}

\* The nodes that lie on a cycle of the graph.
CycleNodes == {n \in Nodes(graph) : OnCycle(graph, n)}

\* The node of input entity u.
NodeOf(u) == CHOOSE n \in Nodes(graph) : graph.nodes[n].item = u

Fragments == {u \in DOMAIN input : Ent(u).kind = "CustomSql"}
Bootstraps == {u \in Fragments : Ent(u).bootstrap}
Finalizes == {u \in Fragments : Ent(u).finalize}

\* The `requires` references entity v carries.
RECURSIVE Requirements(_)
Requirements(extern_attrs) ==
    IF extern_attrs = << >> THEN << >>
    ELSE extern_attrs[1].requirements \o Requirements(Tail(extern_attrs))

RequiresOf(v) ==
    LET refs == Ent(v).requires \o Requirements(Ent(v).extern_attrs)
    IN {refs[k] : k \in DOMAIN refs}

\* Reference ref names entity u (by label for a fragment, by path otherwise).
Names(ref, u) ==
    LET e == Ent(u)
        segments == Split(ref.val)
        last == segments[Len(segments)]
        prefix == Join(SubSeq(segments, 1, Len(segments) - 1))
    IN IF ref.tag = "Name" THEN e.kind = "CustomSql" /\ e.name = ref.val
       ELSE \/ e.kind \in {"Type", "Enum"} /\ e.name = last /\ EndsWith(e.module_path, prefix)
            \/ e.kind = "Function" /\ e.unaliased_name = last
                                   /\ EndsWith(e.module_path, prefix)
            \/ e.kind = "Schema" /\ EndsWith(e.module_path, ref.val)
            \/ e.kind = "Trigger" /\ e.function_name = last
                                  /\ EndsWith(e.module_path, prefix)

\* The types entity v uses: arguments, returns, state and moving-state types.
UsagesOf(v) ==
    LET e == Ent(v)
        direct == IF e.direct_args = None THEN << >> ELSE e.direct_args[1]
        tys == e.fn_args \o e.fn_return.tys \o e.args \o direct \o e.mstype
               \o (IF e.fn_return.tag \in {"Type", "SetOf"} THEN << e.fn_return.ty >>
                   ELSE << >>)
    IN {tys[k] : k \in DOMAIN tys}

\* Entity v requires entity u, or uses the type u declares.
DependsOn(v, u) ==
    \/ \E ref \in RequiresOf(v) : Names(ref, u)
    \/ \E ty \in UsagesOf(v) :
          \/ Ent(u).kind \in {"Type", "Enum"} /\ Ent(u).id = ty.ty_id
          \/ \E key \in {ty.full_path, ty.ty_source} :
                Ent(u).creates \cap {SqlDeclaredType(key), SqlDeclaredEnum(key)} # {}
    \/ Ent(v).kind = "Aggregate" /\ Ent(u).kind \in {"Type", "Enum"}
                                 /\ Ent(u).id = Ent(v).ty_id

RECURSIVE Dependents(_, _)
\* The entities of the input that depend, through one or more steps, on `frontier`.
Dependents(frontier, seen) ==
    LET next == {v \in DOMAIN input : \E u \in frontier : DependsOn(v, u)} \ seen
    IN IF next = {} THEN seen ELSE Dependents(next, seen \cup next)

\* The input has a cycle among its requires references and type usages.
DependencyCycle == \E u \in DOMAIN input : u \in Dependents({u}, {})

MutuallyRequire(u, v) ==
    /\ u # v
    /\ \E ref \in RequiresOf(u) : Names(ref, v)
    /\ \E ref \in RequiresOf(v) : Names(ref, u)

\* C1: whenever the topological sort of to_sql succeeds, the returned order holds
\* every node of the graph exactly once and, for every edge a -> b of any
\* relationship kind, a comes before b.
C1_LinearizationRespectsEdges ==
    Linearized =>
        /\ Len(sql_result.order) = Len(graph.nodes)
        /\ {sql_result.order[i] : i \in DOMAIN sql_result.order} = Nodes(graph)
        /\ \A e \in Edges(graph) : Before(e[1], e[2])

\* A linearization of a graph that has edges of all three relationship kinds.
C1_Witness ==
    /\ Linearized
    /\ \A w \in {RequiredBy, RequiredByArg, RequiredByReturn} :
          \E e \in Edges(graph) : e[3] = w

\* C2 (as stated): whenever build succeeds on an input with no cycle among its
\* requires references and type usages, linearization succeeds and returns all
\* nodes exactly once: the root, bootstrap, finalize and schema edges that build
\* adds never close a cycle on their own.
C2_AcyclicInputLinearizes ==
    (pc = "done" /\ Built /\ ~DependencyCycle) =>
        /\ Linearized
        /\ Len(sql_result.order) = Len(graph.nodes)
        /\ {sql_result.order[i] : i \in DOMAIN sql_result.order} = Nodes(graph)

\* C3: for two entities that require each other through resolvable references,
\* build does not reject the cycle (alone with the root they build), and
\* linearization of the built graph fails naming a node on a cycle, which is one
\* of the two when they are the only nodes on a cycle.
C3_MutualRequiresFailAtLinearization ==
    \A u, v \in DOMAIN input :
        (pc = "done" /\ MutuallyRequire(u, v)) =>
            /\ DOMAIN input \ Roots = {u, v} /\ DOMAIN input \cap Roots # {} => Built
            /\ Built =>
                  /\ sql_result.tag = "Err"
                  /\ sql_result.node \in CycleNodes
                  /\ {NodeOf(u), NodeOf(v)} \subseteq CycleNodes
                  /\ CycleNodes = {NodeOf(u), NodeOf(v)} =>
                        sql_result.node \in {NodeOf(u), NodeOf(v)}

\* A built graph of a mutually requiring pair and a third entity, whose
\* linearization failed.
C3_Witness ==
    /\ pc = "done" /\ Built /\ sql_result.tag = "Err"
    /\ \E u, v \in DOMAIN input : MutuallyRequire(u, v) /\ CycleNodes = {NodeOf(u), NodeOf(v)}
    /\ Cardinality(DOMAIN input \ Roots) = 3

\* C4: an input with two or more fragments marked bootstrap, or two or more marked
\* finalize, makes build return an error and no graph; in every built graph
\* graph_bootstrap (graph_finalize) is set exactly when one input fragment is
\* marked bootstrap (finalize), and is the index of that fragment's node.
C4_AnchorUniqueness ==
    /\ (pc = "done" /\ (Cardinality(Bootstraps) >= 2 \/ Cardinality(Finalizes) >= 2)) =>
          /\ build_result # "Ok"
          /\ DOMAIN input \cap Roots # {} => build_result = "Err"
          /\ graph = EmptyGraph
    /\ Built =>
          /\ Cardinality(Bootstraps) <= 1
          /\ Cardinality(Finalizes) <= 1
          /\ graph_bootstrap # None <=> Bootstraps # {}
          /\ graph_finalize # None <=> Finalizes # {}
          /\ \A u \in Bootstraps : graph.nodes[graph_bootstrap[1]] = EntityNode(u)
          /\ \A u \in Finalizes : graph.nodes[graph_finalize[1]] = EntityNode(u)

\* build has failed on an input with one bootstrap and two finalize fragments.
C4_Witness ==
    /\ pc = "done" /\ build_result = "Err"
    /\ Cardinality(Finalizes) = 2
    /\ Cardinality(Bootstraps) = 1

\* C5 (as stated): a built graph has exactly one Root node and every other node has
\* an incoming RequiredBy edge from it, so the root is first in every linearization.
C5_RootRequiredByEveryNode ==
    Built =>
        /\ {n \in Nodes(graph) : graph.nodes[n].kind = "ExtensionRoot"} = {graph_root}
        /\ \A n \in Nodes(graph) \ {graph_root} : HasEdge(graph_root, n, RequiredBy)
        /\ Linearized => sql_result.order[1] = graph_root

\* C5 (amended): a built graph has exactly one Root node; every other node except
\* the builtin-type placeholders has an incoming RequiredBy edge from it, and a
\* placeholder has no edge from it; so the root comes before every declared
\* entity in every linearization.
C5_RootRequiredByEveryDeclaredEntity ==
    Built =>
        /\ {n \in Nodes(graph) : graph.nodes[n].kind = "ExtensionRoot"} = {graph_root}
        /\ \A n \in Nodes(graph) \ ({graph_root} \cup BuiltinNodes) :
              /\ HasEdge(graph_root, n, RequiredBy)
              /\ Linearized => Before(graph_root, n)
        /\ \A n \in BuiltinNodes : ~\E e \in Edges(graph) : e[1] = graph_root /\ e[2] = n

\* A linearization that starts with a builtin-type placeholder, not with the root.
C5_Witness ==
    /\ Built /\ Linearized
    /\ IsBuiltin(sql_result.order[1])
    /\ \E n \in Nodes(graph) : graph.nodes[n].kind = "Schema"

\* C6: when a bootstrap fragment exists, every other non-root declared entity has
\* an incoming RequiredBy edge from the bootstrap node, so the bootstrap fragment
\* comes before each of them in every linearization.
C6_BootstrapRequiredByEveryEntity ==
    (Built /\ graph_bootstrap # None) =>
        \A n \in Nodes(graph) \ ({graph_root, graph_bootstrap[1]} \cup BuiltinNodes) :
            /\ HasEdge(graph_bootstrap[1], n, RequiredBy)
            /\ Linearized => Before(graph_bootstrap[1], n)

\* A linearization of a graph with a bootstrap fragment, a finalize fragment and
\* another entity.
C6_Witness ==
    /\ Built /\ Linearized
    /\ graph_bootstrap # None /\ graph_finalize # None
    /\ graph_bootstrap # graph_finalize
    /\ Len(graph.nodes) >= 4

\* C7: when a finalize fragment exists, every other node (the root, the bootstrap,
\* every declared entity, every builtin-type placeholder) has a path of edges to
\* the finalize node, which is therefore last in every linearization.
C7_FinalizeIsLast ==
    (Built /\ graph_finalize # None) =>
        /\ \A n \in Nodes(graph) \ {graph_finalize[1]} :
              graph_finalize[1] \in ReachableFrom(graph, {n}, {})
        /\ Linearized => sql_result.order[Len(sql_result.order)] = graph_finalize[1]

\* A linearization of a graph with a finalize fragment, a bootstrap fragment and a
\* builtin-type placeholder.
C7_Witness ==
    /\ Built /\ Linearized
    /\ graph_finalize # None /\ graph_bootstrap # None
    /\ BuiltinNodes # {}

\* The used types for which entity u needs a node, each with the key its
\* placeholder is looked up under.
UsedTypeKeys(u) ==
    LET e == Ent(u)
        direct == IF e.direct_args = None THEN << >> ELSE e.direct_args[1]
        byPath == e.fn_args \o e.args \o direct \o e.mstype
                  \o (IF e.fn_return.tag \in {"Type", "SetOf"} THEN << e.fn_return.ty >>
                      ELSE << >>)
    IN {[ty_id |-> byPath[k].ty_id, key |-> byPath[k].full_path] : k \in DOMAIN byPath}
       \cup {[ty_id |-> e.fn_return.tys[k].ty_id, key |-> e.fn_return.tys[k].ty_source] :
                k \in DOMAIN e.fn_return.tys}

\* No type and no enum of the input has this identity.
Undeclared(ty_id) ==
    ~\E t \in DOMAIN input : Ent(t).kind \in {"Type", "Enum"} /\ Ent(t).id = ty_id

PlaceholderKeys(u) == {usage.key : usage \in {x \in UsedTypeKeys(u) : Undeclared(x.ty_id)}}

BuiltinKeys == {builtin_types[k].item : k \in DOMAIN builtin_types}

\* C8: in a built graph there is exactly one BuiltinType node per placeholder path,
\* builtin_types maps each path to its node, and every function and aggregate
\* that uses an undeclared type under that path has an edge from that one node.
C8_BuiltinPlaceholderPerPath ==
    Built =>
        /\ \A m, n \in BuiltinNodes : graph.nodes[m].path = graph.nodes[n].path => m = n
        /\ \A j, k \in DOMAIN builtin_types :
              builtin_types[j].item = builtin_types[k].item => j = k
        /\ \A k \in DOMAIN builtin_types :
              /\ builtin_types[k].index \in Nodes(graph)
              /\ graph.nodes[builtin_types[k].index] = BuiltinTypeNode(builtin_types[k].item)
        /\ BuiltinNodes = {builtin_types[k].index : k \in DOMAIN builtin_types}
        /\ \A u \in DOMAIN input : \A key \in PlaceholderKeys(u) :
              \E k \in DOMAIN builtin_types :
                  /\ builtin_types[k].item = key
                  /\ \E e \in Edges(graph) :
                        e[1] = builtin_types[k].index /\ e[2] = NodeOf(u)

\* A built graph in which two functions and an aggregate share one placeholder.
C8_Witness ==
    /\ Built
    /\ \E n \in BuiltinNodes :
          /\ Cardinality({e[2] : e \in {d \in Edges(graph) : d[1] = n}}) = 3
          /\ \E e \in Edges(graph) : e[1] = n /\ graph.nodes[e[2]].kind = "Aggregate"

\* C9: when the function connector starts, the map of the node phase holds, under
\* the key the connector uses, a placeholder for every argument, Type / SetOf
\* return and Iterated return item that matches no declared type or enum, so
\* connect_externs does not abort on a missing placeholder.
C9_ExternPlaceholdersPresent ==
    pc = "connect_externs" =>
        /\ \A k \in DOMAIN externs : PlaceholderKeys(externs[k].item) \subseteq BuiltinKeys
        /\ connect_externs([status |-> "Ok", graph |-> graph], 1).status # "Panic"

\* The function connector starts on functions that use an undeclared type as an
\* argument, as a SetOf return and as an Iterated return item.
C9_Witness ==
    /\ pc = "connect_externs"
    /\ \E k \in DOMAIN externs :
          LET f == Ent(externs[k].item)
          IN f.fn_return.tag = "Iterated"
             /\ \E j \in DOMAIN f.fn_return.tys : Undeclared(f.fn_return.tys[j].ty_id)
    /\ \E k \in DOMAIN externs :
          LET f == Ent(externs[k].item)
          IN f.fn_return.tag = "SetOf" /\ Undeclared(f.fn_return.ty.ty_id)
                                       /\ f.fn_args # << >>

\* C10 (as stated): when the aggregate connector starts, the map of the node phase
\* holds a placeholder for every argument, direct argument and moving-state type
\* that matches no declared type or enum, so connect_aggregates does not abort on
\* a missing placeholder.
C10_AggregatePlaceholdersPresent ==
    pc = "connect_aggregates" =>
        /\ \A k \in DOMAIN aggregates :
              PlaceholderKeys(aggregates[k].item) \subseteq BuiltinKeys
        /\ connect_aggregates([status |-> "Ok", graph |-> graph], 1).status # "Panic"

----------------------------------------------------------------------------
(* Explicit references *)

\* The path references tried against every input.
PathRefs ==
    {FullPath(<<"m", ":", ":", "T">>), FullPath(<<"T">>), FullPath(<<"f">>),
     FullPath(<<"m">>), FullPath(<< >>), FullPath(<<"x", ":", ":", "q">>)}

\* The kinds a path reference is searched in, in the order of the search.
SearchOrder == << "Type", "Enum", "Function", "Schema", "Trigger" >>

\* The input entities of kind SearchOrder[k] that the reference names.
Named(ref, k) ==
    {u \in DOMAIN input : Ent(u).kind = SearchOrder[k] /\ Names(ref, u)}

\* All maps are filled and no connector has used the resolver yet.
NodesReady == pc = "connect_extension_sqls"

\* C11: on a path reference find_positioning_ref_target returns a node of the
\* first kind, in the order type, enum, function, schema, trigger, that has an
\* entity whose name is the last segment and whose module path ends with the
\* prefix (for a schema: whose module path ends with the whole path), that node
\* being one of the matching entities; it returns nothing when no kind matches.
C11_ResolverPrecedence ==
    NodesReady =>
        \A ref \in PathRefs :
            LET target == find_positioning_ref_target(ref)
                kinds == {k \in DOMAIN SearchOrder : Named(ref, k) # {}}
            IN IF kinds = {} THEN target = None
               ELSE /\ target # None
                    /\ target[1] \in Nodes(graph)
                    /\ \E k \in kinds :
                          /\ \A j \in kinds : k <= j
                          /\ graph.nodes[target[1]].item \in Named(ref, k)

\* A type, an enum and a function all match the reference m::T, and one
\* reference matches nothing.
C11_Witness ==
    /\ NodesReady
    /\ \A k \in 1..3 : Named(FullPath(<<"m", ":", ":", "T">>), k) # {}
    /\ find_positioning_ref_target(FullPath(<<"m", ":", ":", "T">>)) # None
    /\ find_positioning_ref_target(FullPath(<<"x", ":", ":", "q">>)) = None

HasRoot == \E u \in DOMAIN input : Ent(u).kind = "ExtensionRoot"

\* The input entities a reference resolves to: the fragments of that name, or
\* the named entities of the first kind of the search that has one.
Targets(ref) ==
    IF ref.tag = "Name" THEN {t \in DOMAIN input : Names(ref, t)}
    ELSE LET kinds == {k \in DOMAIN SearchOrder : Named(ref, k) # {}}
         IN UNION {Named(ref, k) : k \in {j \in kinds : \A i \in kinds : j <= i}}

Unresolved == \E u \in DOMAIN input : \E ref \in RequiresOf(u) : Targets(ref) = {}

\* C12: for every `requires` reference of a fragment or of a function, a built
\* graph has a RequiredBy edge from the node the reference resolves to, to the
\* requirer; when a reference of the input resolves to nothing, build returns an
\* error and no graph.
C12_RequiresResolveOrFail ==
    /\ Built =>
          \A u \in DOMAIN input : \A ref \in RequiresOf(u) :
              \E t \in Targets(ref) : HasEdge(NodeOf(t), NodeOf(u), RequiredBy)
    /\ (pc = "done" /\ Unresolved) =>
          /\ build_result # "Ok"
          /\ HasRoot => build_result = "Err"
          /\ graph = EmptyGraph

\* A built graph for a fragment with two references and a function with one.
C12_Witness ==
    /\ Built
    /\ \E u \in DOMAIN input : Ent(u).kind = "CustomSql" /\ Cardinality(RequiresOf(u)) = 2

\* The schema names function u declares in its attributes.
DeclaredSchemas(u) ==
    {Ent(u).extern_attrs[k].schema :
        k \in {j \in DOMAIN Ent(u).extern_attrs : Ent(u).extern_attrs[j].tag = "Schema"}}

SchemasNamed(name) == {t \in DOMAIN input : Ent(t).kind = "Schema" /\ Ent(t).name = name}

\* C13 (as stated): for every function and every schema name it declares in an
\* attribute, a schema of that name must be declared, otherwise build returns an
\* error; in a built graph the function has a RequiredBy edge from each schema it
\* names and no edge from a schema it does not name.
C13_NamedSchemaMustExist ==
    /\ (pc = "done" /\ HasRoot
        /\ \E u \in DOMAIN input : \E name \in DeclaredSchemas(u) : SchemasNamed(name) = {})
          => build_result = "Err"
    /\ Built =>
          \A u \in DOMAIN input : DeclaredSchemas(u) # {} =>
              /\ \A name \in DeclaredSchemas(u) : \E t \in SchemasNamed(name) :
                    HasEdge(NodeOf(t), NodeOf(u), RequiredBy)
              /\ \A t \in DOMAIN input :
                    (Ent(t).kind = "Schema" /\ Ent(t).name \notin DeclaredSchemas(u))
                        => ~HasEdge(NodeOf(t), NodeOf(u), RequiredBy)

----------------------------------------------------------------------------
(* Lookups by function name and membership by module path *)

\* The support function names aggregate u declares: sfunc and the optional ones.
SupportFns(u) ==
    LET a == Ent(u)
        given(opt) == {opt[k] : k \in DOMAIN opt}
    IN {a.sfunc} \cup given(a.finalfunc) \cup given(a.combinefunc)
          \cup given(a.serialfunc) \cup given(a.deserialfunc)
          \cup given(a.msfunc) \cup given(a.minvfunc)
          \cup given(a.mfinalfunc) \cup given(a.sortop)

\* The functions of the input whose full path is `module_path::name`.
FunctionsAt(module_path, name) ==
    {f \in DOMAIN input : /\ Ent(f).kind = "Function"
                          /\ Ent(f).full_path = module_path \o <<":", ":">> \o name}

AggregatesOfInput == {u \in DOMAIN input : Ent(u).kind = "Aggregate"}

\* C14: every support function an aggregate declares is looked up by the exact
\* path `module_path::name` among the declared functions: when one of them is not
\* declared build returns an error and no graph, and in a built graph each of them
\* has a RequiredBy edge function -> aggregate.
C14_AggregateSupportFunctions ==
    /\ (pc = "done" /\ HasRoot
        /\ \E u \in AggregatesOfInput : \E name \in SupportFns(u) :
              FunctionsAt(Ent(u).module_path, name) = {})
          => build_result = "Err" /\ graph = EmptyGraph
    /\ Built =>
          \A u \in AggregatesOfInput : \A name \in SupportFns(u) :
              \E f \in FunctionsAt(Ent(u).module_path, name) :
                  HasEdge(NodeOf(f), NodeOf(u), RequiredBy)

\* a built graph of an aggregate that declares a final function next to sfunc
C14_Witness ==
    /\ Built
    /\ \E u \in AggregatesOfInput :
          /\ Cardinality(SupportFns(u)) = 2
          /\ \A name \in SupportFns(u) :
                \E f \in FunctionsAt(Ent(u).module_path, name) :
                    HasEdge(NodeOf(f), NodeOf(u), RequiredBy)

OrdsOfInput == {u \in DOMAIN input : Ent(u).kind = "Ord"}

FunctionsOfInput == {f \in DOMAIN input : Ent(f).kind = "Function"}

\* The six operator function names of Ord u: the lowercased name, an underscore,
\* and cmp, lt, le, eq, gt or ge.
OperatorNames(u) ==
    LET prefix == ToLowercase(Ent(u).name) \o <<"_">>
    IN {prefix \o <<"c", "m", "p">>, prefix \o <<"l", "t">>, prefix \o <<"l", "e">>,
        prefix \o <<"e", "q">>, prefix \o <<"g", "t">>, prefix \o <<"g", "e">>}

\* The functions of Ord u's module that carry one of its operator names.
OperatorFns(u) ==
    {f \in FunctionsOfInput : /\ Ent(f).module_path = Ent(u).module_path
                              /\ Ent(f).name \in OperatorNames(u)}

\* C15: in a built graph every function of an Ord's module named like one of its
\* six operator functions has a RequiredBy edge function -> Ord and no other
\* function has an edge into the Ord; an Ord without such a function does not
\* make build fail.
C15_OrdOperatorFunctions ==
    /\ Built =>
          \A u \in OrdsOfInput : \A f \in FunctionsOfInput :
              IF f \in OperatorFns(u)
              THEN HasEdge(NodeOf(f), NodeOf(u), RequiredBy)
              ELSE \A w \in {RequiredBy, RequiredByArg, RequiredByReturn} :
                      ~HasEdge(NodeOf(f), NodeOf(u), w)
    /\ (pc = "done" /\ HasRoot /\ OrdsOfInput # {}
        /\ \A u \in DOMAIN input : Ent(u).kind \in {"ExtensionRoot", "Ord", "Function"}
        /\ \A f \in FunctionsOfInput : Ent(f).extern_attrs = << >>)
          => build_result = "Ok"

\* a built graph with an Ord, one operator function in its module and a function
\* of the same name in another module
C15_Witness ==
    /\ Built
    /\ \E u \in OrdsOfInput :
          /\ \E f \in OperatorFns(u) : HasEdge(NodeOf(f), NodeOf(u), RequiredBy)
          /\ \E f \in FunctionsOfInput \ OperatorFns(u) : Ent(f).name \in OperatorNames(u)


SchemasOfInput == {t \in DOMAIN input : Ent(t).kind = "Schema"}

\* The entities make_schema_connection places by module path: every declared
\* entity but the schemas and the functions that name their schema in an attribute.
PlacedByPath ==
    {u \in DOMAIN input :
        \/ Ent(u).kind \in {"CustomSql", "Enum", "Type", "Ord", "Hash", "Aggregate",
                            "Trigger"}
        \/ Ent(u).kind = "Function" /\ DeclaredSchemas(u) = {}}

SchemasOfModule(u) == {t \in SchemasOfInput : Ent(t).module_path = Ent(u).module_path}

\* C19: in a built graph every entity placed by module path has exactly one
\* RequiredBy edge from a schema when a schema of its module path is declared,
\* from one of those schemas, however many of them there are, and no edge from a
\* schema otherwise; the lack of a schema for an entity does not make build fail.
C19_OneSchemaEdgeByPath ==
    /\ Built =>
          \A u \in PlacedByPath :
              IF SchemasOfModule(u) = {}
              THEN \A t \in SchemasOfInput : ~HasEdge(NodeOf(t), NodeOf(u), RequiredBy)
              ELSE \E t \in SchemasOfModule(u) :
                     /\ CopiesIn(<< NodeOf(t), NodeOf(u), RequiredBy >>, graph.edges) = 1
                     /\ \A o \in SchemasOfInput \ {t} :
                           ~HasEdge(NodeOf(o), NodeOf(u), RequiredBy)
    /\ (pc = "done" /\ HasRoot /\ SchemasOfInput = {} /\ AggregatesOfInput = {}
        /\ \A u \in DOMAIN input : DeclaredSchemas(u) = {})
          => build_result = "Ok"

\* a built graph with two schemas of one module and an entity of that module
C19_Witness ==
    /\ Built
    /\ \E u \in PlacedByPath :
          /\ Cardinality(SchemasOfModule(u)) = 2
          /\ \E t \in SchemasOfModule(u) : HasEdge(NodeOf(t), NodeOf(u), RequiredBy)

----------------------------------------------------------------------------
(* A schema, a type and a function of the type *)

\* The input is a root r, a schema s, a type T of s's module and a function f of
\* that module that takes one T, returns a T and has no attributes.
SchemaTypeFunction(r, s, T, f) ==
    /\ DOMAIN input = {r, s, T, f}
    /\ Ent(r).kind = "ExtensionRoot"
    /\ Ent(s).kind = "Schema"
    /\ Ent(T).kind = "Type" /\ Ent(T).module_path = Ent(s).module_path
    /\ Ent(f).kind = "Function" /\ Ent(f).module_path = Ent(s).module_path
    /\ Len(Ent(f).fn_args) = 1 /\ Ent(f).fn_args[1].ty_id = Ent(T).id
    /\ Ent(f).fn_return.tag = "Type" /\ Ent(f).fn_return.ty.ty_id = Ent(T).id
    /\ Ent(f).extern_attrs = << >>

\* C16: on the input {root, schema s, type T of s's module, function f(x: T) -> T
\* of that module} build succeeds; besides the edges out of the root the graph
\* has exactly s -> T, s -> f, T -> f as RequiredByArg and T -> f as
\* RequiredByReturn, once each; there is no builtin placeholder; to_sql succeeds
\* and every order it returns has root before s, s before T and T before f.
C16_SchemaTypeFunctionScenario ==
    \A r, s, T, f \in DOMAIN input :
        SchemaTypeFunction(r, s, T, f) =>
            /\ pc \in {"to_sql", "done"} => Built
            /\ Built =>
                  /\ {e \in Edges(graph) : e[1] # NodeOf(r)}
                        = { << NodeOf(s), NodeOf(T), RequiredBy >>,
                            << NodeOf(s), NodeOf(f), RequiredBy >>,
                            << NodeOf(T), NodeOf(f), RequiredByArg >>,
                            << NodeOf(T), NodeOf(f), RequiredByReturn >> }
                  /\ \A e \in Edges(graph) : CopiesIn(e, graph.edges) = 1
                  /\ builtin_types = << >> /\ BuiltinNodes = {}
            /\ pc = "done" => Linearized
            /\ Linearized =>
                  /\ Before(NodeOf(r), NodeOf(s))
                  /\ Before(NodeOf(s), NodeOf(T))
                  /\ Before(NodeOf(T), NodeOf(f))

\* the scenario, built and linearized
C16_Witness ==
    /\ Linearized
    /\ \E r, s, T, f \in DOMAIN input :
          /\ SchemaTypeFunction(r, s, T, f)
          /\ Len(sql_result.order) = 4
          /\ HasEdge(NodeOf(T), NodeOf(f), RequiredByReturn)

----------------------------------------------------------------------------
(* The control entity *)

\* C18: on an input without a Root entity build aborts at its first step,
\* whatever else the input holds: it panics, no node is ever added, no table is
\* filled, and to_sql never runs.
C18_NoRootAborts ==
    ~HasRoot =>
        /\ pc \in {"build", "done"}
        /\ graph = EmptyGraph /\ control = None /\ NoTables
        /\ ~Linearized
        /\ pc = "done" => build_result = "Panic"

\* build has panicked on an input of three declared entities and no root
C18_Witness ==
    /\ ~HasRoot /\ pc = "done" /\ build_result = "Panic"
    /\ Cardinality(DOMAIN input) = 3

----------------------------------------------------------------------------
(* The lookup tables and the nodes *)

\* The entries of the tables of declared entities, all kinds together.
DeclaredEntries ==
    schemas \o extension_sqls \o externs \o types \o enums \o ords \o hashes
        \o aggregates \o triggers

\* The nodes that hold a declared entity: all but the root and the placeholders.
DeclaredNodes == {n \in Nodes(graph) : n # graph_root /\ ~IsBuiltin(n)}

\* Some entity of the input appears in it more than once.
HasDuplicates == \E u, v \in DOMAIN input : u # v /\ Ent(u) = Ent(v)

\* C17 (as stated): in a built graph, whatever the input and also when it holds
\* equal entities more than once, each input entity of a declared kind has
\* exactly one node, each node of a declared entity is the value of exactly one
\* table entry and each table entry points to such a node, and the number of
\* nodes is 1 plus the sizes of all tables, builtin_types included.
C17_TablesBijectWithNodes ==
    Built =>
        /\ \A u \in DOMAIN input :
              Ent(u).kind # "ExtensionRoot" =>
                  Cardinality({n \in Nodes(graph) : graph.nodes[n] = EntityNode(u)}) = 1
        /\ \A n \in DeclaredNodes :
              Cardinality({k \in DOMAIN DeclaredEntries : DeclaredEntries[k].index = n}) = 1
        /\ \A k \in DOMAIN DeclaredEntries : DeclaredEntries[k].index \in DeclaredNodes
        /\ Len(graph.nodes) = 1 + Len(DeclaredEntries) + Len(builtin_types)

----------------------------------------------------------------------------
(* The type dependencies of a function *)

\* The argument usages of function f, in order, each with its placeholder key.
ArgumentUsages(f) ==
    [k \in DOMAIN Ent(f).fn_args |->
        [ty_id |-> Ent(f).fn_args[k].ty_id, key |-> Ent(f).fn_args[k].full_path]]

\* The return usages of function f: none, the returned type, or the iterated ones.
ReturnUsages(f) ==
    LET ret == Ent(f).fn_return
    IN IF ret.tag \in {"Type", "SetOf"}
       THEN << [ty_id |-> ret.ty.ty_id, key |-> ret.ty.full_path] >>
       ELSE [k \in DOMAIN ret.tys |->
               [ty_id |-> ret.tys[k].ty_id, key |-> ret.tys[k].ty_source]]

DeclaredAs(kind, ty_id) ==
    {t \in DOMAIN input : Ent(t).kind = kind /\ Ent(t).id = ty_id}

\* The node of the first tier that matches a usage: the declared type, else the
\* declared enum, else the builtin placeholder of its key.
TierNode(usage) ==
    IF DeclaredAs("Type", usage.ty_id) # {}
    THEN NodeOf(CHOOSE t \in DeclaredAs("Type", usage.ty_id) : TRUE)
    ELSE IF DeclaredAs("Enum", usage.ty_id) # {}
    THEN NodeOf(CHOOSE t \in DeclaredAs("Enum", usage.ty_id) : TRUE)
    ELSE CHOOSE n \in BuiltinNodes : graph.nodes[n].path = usage.key

RECURSIVE TierEdges(_, _, _, _)
\* One edge per usage, from its tier node into f, of the given kind: a bag.
TierEdges(f, usages, kind, i) ==
    IF i > Len(usages) THEN EmptyBag
    ELSE SetToBag({<< TierNode(usages[i]), NodeOf(f), kind >>})
            (+) TierEdges(f, usages, kind, i + 1)

\* The fragments that declare a type or an enum under this key.
DeclaringFragments(key) ==
    {y \in Fragments : \/ SqlDeclaredType(key) \in Ent(y).creates
                       \/ SqlDeclaredEnum(key) \in Ent(y).creates}

RECURSIVE FragmentEdges(_, _, _)
\* For each usage that matches no declared type or enum, one RequiredByArg edge
\* from every fragment that declares its key: a bag.
FragmentEdges(f, usages, i) ==
    IF i > Len(usages) THEN EmptyBag
    ELSE (IF Undeclared(usages[i].ty_id)
          THEN SetToBag({<< NodeOf(y), NodeOf(f), RequiredByArg >> :
                            y \in DeclaringFragments(usages[i].key)})
          ELSE EmptyBag)
            (+) FragmentEdges(f, usages, i + 1)

\* The RequiredByArg and RequiredByReturn edges into function f, with their counts.
TypeEdgesInto(f) ==
    [e \in {x \in Edges(graph) : /\ x[2] = NodeOf(f)
                                 /\ x[3] \in {RequiredByArg, RequiredByReturn}}
        |-> CopiesIn(e, graph.edges)]

SameBag(A, B) ==
    \A e \in BagToSet(A) \cup BagToSet(B) : CopiesIn(e, A) = CopiesIn(e, B)

\* C20 (as stated): in a built graph the type-dependency edges into a function
\* are exactly one per argument and one per return usage, each from the first
\* tier that matches (declared type, declared enum, builtin placeholder), of kind
\* RequiredByArg for an argument and RequiredByReturn for a return usage.
C20_OneTypeEdgePerUsage ==
    Built =>
        \A f \in FunctionsOfInput :
            SameBag(TypeEdgesInto(f),
                    TierEdges(f, ArgumentUsages(f), RequiredByArg, 1)
                        (+) TierEdges(f, ReturnUsages(f), RequiredByReturn, 1))

\* C20 (amended): in a built graph the type-dependency edges into a function are
\* one per argument and one per return usage, each from the first tier that
\* matches, of kind RequiredByArg for an argument and RequiredByReturn for a
\* return usage, and, for each usage that no declared type or enum matches, one
\* more edge of kind RequiredByArg from every fragment that declares a type or an
\* enum under the usage's key.
C20_TierEdgePlusDeclaringFragments ==
    Built =>
        \A f \in FunctionsOfInput :
            SameBag(TypeEdgesInto(f),
                    TierEdges(f, ArgumentUsages(f), RequiredByArg, 1)
                        (+) TierEdges(f, ReturnUsages(f), RequiredByReturn, 1)
                        (+) FragmentEdges(f, ArgumentUsages(f), 1)
                        (+) FragmentEdges(f, ReturnUsages(f), 1))

\* a built graph where a fragment declares the undeclared type a function returns
C20_Witness ==
    /\ Built
    /\ \E f \in FunctionsOfInput :
          /\ Len(ReturnUsages(f)) > 0
          /\ \E k \in DOMAIN ReturnUsages(f) :
                /\ Undeclared(ReturnUsages(f)[k].ty_id)
                /\ \E y \in DeclaringFragments(ReturnUsages(f)[k].key) :
                      HasEdge(NodeOf(y), NodeOf(f), RequiredByArg)

\* The usages of function f, arguments then returns.
AllUsages(f) == ArgumentUsages(f) \o ReturnUsages(f)

\* The edges from node a to node b of kind w, counted.
EdgeCount(a, b, w) == CopiesIn(<< a, b, w >>, graph.edges)

\* C21 (as stated): in a built graph, for every argument or return usage of a
\* function and every fragment that declares a type or an enum under the usage's
\* name, there is a RequiredByArg edge fragment -> function, whichever tier the
\* usage matched.
C21_FragmentEdgeForEveryUsage ==
    Built =>
        \A f \in FunctionsOfInput : \A k \in DOMAIN AllUsages(f) :
            \A y \in DeclaringFragments(AllUsages(f)[k].key) :
                HasEdge(NodeOf(y), NodeOf(f), RequiredByArg)

\* C21 (amended): in a built graph, for every function and every fragment, the
\* RequiredByArg edges fragment -> function are as many as the function has
\* usages that match no declared type or enum and whose name the fragment
\* declares as a type or an enum; each of these usages keeps its edge from the
\* builtin placeholder.
C21_FragmentEdgeForUndeclaredUsage ==
    Built =>
        \A f \in FunctionsOfInput :
            LET usages == AllUsages(f)
                byFragment(y) == {k \in DOMAIN usages :
                                     /\ Undeclared(usages[k].ty_id)
                                     /\ y \in DeclaringFragments(usages[k].key)}
            IN \A y \in Fragments :
                  /\ EdgeCount(NodeOf(y), NodeOf(f), RequiredByArg)
                        = Cardinality(byFragment(y))
                  /\ \A k \in byFragment(y) :
                        \E n \in BuiltinNodes :
                            /\ graph.nodes[n].path = usages[k].key
                            /\ \/ HasEdge(n, NodeOf(f), RequiredByArg)
                               \/ HasEdge(n, NodeOf(f), RequiredByReturn)

\* a built graph with a function that uses an undeclared type three times and a
\* fragment that declares it
C21_Witness ==
    /\ Built
    /\ \E f \in FunctionsOfInput : \E y \in Fragments :
          EdgeCount(NodeOf(y), NodeOf(f), RequiredByArg) = 3

----------------------------------------------------------------------------
(* The type dependencies of an aggregate *)

\* The usages of aggregate u: arguments, direct arguments, moving-state type.
AggregateUsagesOf(u) ==
    LET a == Ent(u)
        direct == IF a.direct_args = None THEN << >> ELSE a.direct_args[1]
        tys == a.args \o direct \o a.mstype
    IN [k \in DOMAIN tys |-> [ty_id |-> tys[k].ty_id, key |-> tys[k].full_path]]

\* The nodes a type dependency can come from.
TypeNodes == {n \in Nodes(graph) : graph.nodes[n].kind \in {"Type", "Enum", "BuiltinType"}}

\* The edges from node a to node b of any kind, counted.
EdgesBetween(a, b) ==
    EdgeCount(a, b, RequiredBy) + EdgeCount(a, b, RequiredByArg)
        + EdgeCount(a, b, RequiredByReturn)

\* C22 (as stated): in a built graph the edges into an aggregate from type, enum
\* and placeholder nodes are exactly one per argument, direct argument and
\* moving-state type, each from the first tier that matches the usage: declared
\* type, else declared enum, else builtin placeholder.
C22_AggregateOneEdgePerUsage ==
    Built =>
        \A u \in AggregatesOfInput : \A n \in TypeNodes :
            EdgesBetween(n, NodeOf(u))
                = Cardinality({k \in DOMAIN AggregateUsagesOf(u) :
                                  TierNode(AggregateUsagesOf(u)[k]) = n})

----------------------------------------------------------------------------
(* Ord and Hash entities and their type *)

OperatorClasses == {u \in DOMAIN input : Ent(u).kind \in {"Ord", "Hash"}}

\* The declared types and enums with the identity of Ord or Hash u.
SupportingTypes(u) ==
    {t \in DOMAIN input : Ent(t).kind \in {"Type", "Enum"} /\ Ent(t).id = Ent(u).id}

\* C23 (as stated): build fails when the identity of an Ord or Hash entity
\* matches neither a declared type nor a declared enum, so in a built graph every
\* Ord and Hash node has an incoming RequiredBy edge from a Type or Enum node.
C23_OperatorClassHasType ==
    /\ (pc = "done" /\ HasRoot /\ \E u \in OperatorClasses : SupportingTypes(u) = {})
          => build_result # "Ok"
    /\ Built =>
          \A u \in OperatorClasses :
              \E t \in SupportingTypes(u) : HasEdge(NodeOf(t), NodeOf(u), RequiredBy)

HashesOfInput == {u \in DOMAIN input : Ent(u).kind = "Hash"}

\* Function f is the equality function of Hash h: same module, and the name of f
\* is the lower-cased name of h followed by `_eq`.
IsEqualityOf(f, h) ==
    /\ Ent(f).module_path = Ent(h).module_path
    /\ Ent(f).name = ToLowercase(Ent(h).name) \o <<"_", "e", "q">>

\* Function f is the hash function of Hash h.
IsHashFunctionOf(f, h) ==
    /\ Ent(f).module_path = Ent(h).module_path
    /\ Ent(f).name = ToLowercase(Ent(h).name) \o <<"_", "h", "a", "s", "h">>

\* C24: in a built graph every function that is the equality function of a Hash
\* entity has one RequiredBy edge function -> Hash and comes before it in every
\* linearization; a function that is neither its equality nor its hash function
\* has no edge to it; a function or Hash without a partner does not make build
\* fail.
C24_EqualityFunctionBeforeHash ==
    /\ Built =>
          \A f \in FunctionsOfInput : \A h \in HashesOfInput :
              /\ IsEqualityOf(f, h) => EdgeCount(NodeOf(f), NodeOf(h), RequiredBy) = 1
              /\ (~IsEqualityOf(f, h) /\ ~IsHashFunctionOf(f, h))
                    => EdgesBetween(NodeOf(f), NodeOf(h)) = 0
    /\ Linearized =>
          \A f \in FunctionsOfInput : \A h \in HashesOfInput :
              IsEqualityOf(f, h) => Before(NodeOf(f), NodeOf(h))
    /\ (pc = "done" /\ HasRoot) => build_result = "Ok"

\* a linearized graph with a Hash entity, its equality function and a function of
\* that name elsewhere or in another case
C24_Witness ==
    /\ Linearized
    /\ \E h \in HashesOfInput :
          /\ \E f \in FunctionsOfInput :
                IsEqualityOf(f, h) /\ HasEdge(NodeOf(f), NodeOf(h), RequiredBy)
          /\ \E f \in FunctionsOfInput :
                /\ ~IsEqualityOf(f, h)
                /\ ToLowercase(Ent(f).name) = ToLowercase(Ent(h).name) \o <<"_", "e", "q">>

----------------------------------------------------------------------------
(* What a reference can resolve to *)

\* The name references tried against every input.
NameRefs == {Name(<<"a">>), Name(<<"c">>), Name(<<"T">>), Name(<<"s">>), Name(<<"f">>)}

\* The path references tried against every input, the names of fragments included.
PathRefsAndLabels == PathRefs \cup {FullPath(<<"a">>), FullPath(<<"c">>)}

\* The name an entity is declared under: the unaliased name of a function, the
\* function name of a trigger.
DeclaredName(u) ==
    CASE Ent(u).kind = "Function" -> Ent(u).unaliased_name
      [] Ent(u).kind = "Trigger" -> Ent(u).function_name
      [] OTHER -> Ent(u).name

\* The entity of the node a reference resolved to.
Resolved(target) == graph.nodes[target[1]].item

LastSegment(path) == Split(path)[Len(Split(path))]

Prefix(path) == Join(SubSeq(Split(path), 1, Len(Split(path)) - 1))

\* A name reference resolved to a fragment of exactly that name.
ResolvedByLabel(ref, target) ==
    /\ Ent(Resolved(target)).kind = "CustomSql"
    /\ Ent(Resolved(target)).name = ref.val

\* C25 (as stated): a name reference resolves only to a fragment whose name is
\* the label; a path reference resolves only to a type, enum, function, schema or
\* trigger whose name is the last segment of the path and whose module path ends
\* with the rest of the path.
C25_ResolvedEntityIsNamed ==
    NodesReady =>
        /\ \A ref \in NameRefs :
              LET target == find_positioning_ref_target(ref)
              IN target # None => ResolvedByLabel(ref, target)
        /\ \A ref \in PathRefsAndLabels :
              LET target == find_positioning_ref_target(ref)
              IN target # None =>
                    /\ Ent(Resolved(target)).kind
                          \in {"Type", "Enum", "Function", "Schema", "Trigger"}
                    /\ DeclaredName(Resolved(target)) = LastSegment(ref.val)
                    /\ EndsWith(Ent(Resolved(target)).module_path, Prefix(ref.val))

\* C25 (amended): a name reference resolves only to a fragment whose name is the
\* label; a path reference resolves only to a type, enum, function or trigger
\* whose name is the last segment of the path and whose module path ends with
\* the rest of the path, or to a schema whose module path ends with the whole
\* path, whatever the schema's name.
C25_ResolvedEntityIsNamedOrSchemaOfPath ==
    NodesReady =>
        /\ \A ref \in NameRefs :
              LET target == find_positioning_ref_target(ref)
              IN target # None => ResolvedByLabel(ref, target)
        /\ \A ref \in PathRefsAndLabels :
              LET target == find_positioning_ref_target(ref)
              IN target # None =>
                    IF Ent(Resolved(target)).kind = "Schema"
                    THEN EndsWith(Ent(Resolved(target)).module_path, ref.val)
                    ELSE /\ Ent(Resolved(target)).kind
                               \in {"Type", "Enum", "Function", "Trigger"}
                         /\ DeclaredName(Resolved(target)) = LastSegment(ref.val)
                         /\ EndsWith(Ent(Resolved(target)).module_path, Prefix(ref.val))

\* a label resolves to its fragment, the label T resolves to nothing next to a
\* type T, and the path m resolves to a schema that is not named m
C25_Witness ==
    /\ NodesReady
    /\ find_positioning_ref_target(Name(<<"c">>)) # None
    /\ \E t \in DOMAIN input : Ent(t).kind = "Type" /\ Ent(t).name = <<"T">>
    /\ find_positioning_ref_target(Name(<<"T">>)) = None
    /\ find_positioning_ref_target(FullPath(<<"m">>)) # None
    /\ Ent(Resolved(find_positioning_ref_target(FullPath(<<"m">>)))).kind = "Schema"

----------------------------------------------------------------------------
(* The two phases of build *)

\* The connector passes in the order build runs them, and what follows them.
ConnectorOrder ==
    << "connect_schemas", "connect_extension_sqls", "connect_enums", "connect_types",
       "connect_externs", "connect_ords", "connect_hashes", "connect_aggregates",
       "connect_triggers", "to_sql" >>

InConnectorPass == \E k \in 1..9 : pc = ConnectorOrder[k]

PassOf(p) == CHOOSE k \in DOMAIN ConnectorOrder : ConnectorOrder[k] = p

\* An edge of the node phase: out of the root or the bootstrap node, or into the
\* finalize node.
IsAnchorEdge(e) ==
    \/ e[1] = graph_root
    \/ graph_bootstrap = Some(e[1])
    \/ graph_finalize = Some(e[2])

\* A connector pass has failed and build has returned without a graph.
Aborted ==
    /\ pc' = "done"
    /\ build_result' \in {"Err", "Panic"}
    /\ graph' = EmptyGraph

\* A connector pass has ended: the next pass is due, the nodes and the tables
\* are those of before, and no edge is gone.
OnlyEdgesAdded ==
    /\ pc' = ConnectorOrder[PassOf(pc) + 1]
    /\ graph'.nodes = graph.nodes
    /\ \A e \in Edges(graph) : CopiesIn(e, graph.edges) <= CopiesIn(e, graph'.edges)
    /\ UNCHANGED << tables, graph_root, graph_bootstrap, graph_finalize, control >>

\* C26: when the first connector pass is due every edge is out of the root or the
\* bootstrap node or into the finalize node; the first pass is entered from the
\* last initializer only; each connector pass either fails, and build returns
\* without a graph, or hands over to the next pass in the order schemas,
\* fragments, enums, types, functions, Ord, Hash, aggregates, triggers, having
\* changed neither the nodes nor the tables and removed no edge; to_sql leaves
\* the graph as built.
C26_TwoPhaseConstruction ==
    /\ [](pc = "connect_schemas" => \A e \in Edges(graph) : IsAnchorEdge(e))
    /\ [][pc' = "connect_schemas" => pc = "initialize_triggers"]_vars
    /\ [][InConnectorPass => (Aborted \/ OnlyEdgesAdded)]_vars
    /\ [][pc = "to_sql" => (graph' = graph /\ UNCHANGED tables)]_vars

\* a built graph with a placeholder and with an edge that no initializer adds
C26_Witness ==
    /\ Built
    /\ BuiltinNodes # {}
    /\ \E e \in Edges(graph) : ~IsAnchorEdge(e)

----------------------------------------------------------------------------
(* The schema alias of a node *)

\* The Schema nodes that share an edge with node n, in either direction.
AdjacentSchemas(n) ==
    {t \in Nodes(graph) :
        /\ graph.nodes[t].kind = "Schema"
        /\ \E e \in Edges(graph) : (e[1] = t /\ e[2] = n) \/ (e[1] = n /\ e[2] = t)}

\* The adjacent Schema nodes that own node n: n holds a declared entity of the
\* schema's module, or a function that names the schema in an attribute.
OwningSchemas(n) ==
    {t \in AdjacentSchemas(n) :
        /\ graph.nodes[n].kind \notin {"ExtensionRoot", "Schema", "BuiltinType"}
        /\ IF DeclaredSchemas(graph.nodes[n].item) # {}
           THEN Ent(graph.nodes[t].item).name \in DeclaredSchemas(graph.nodes[n].item)
           ELSE Ent(graph.nodes[t].item).module_path
                    = Ent(graph.nodes[n].item).module_path}

\* What the control entity gives as alias: `@extname@` when relocatable, else
\* its schema, if any.
RootAlias ==
    IF Ent(control[1]).relocatable THEN Some(extname) ELSE Ent(control[1]).schema

\* The alias the node is to have: the name of its owning schema, or of a schema
\* it is linked to; without any adjacent schema, the alias of the root.
ExpectedAliases(n) ==
    IF AdjacentSchemas(n) = {} THEN {RootAlias}
    ELSE {Some(Ent(graph.nodes[t].item).name) :
             t \in (IF OwningSchemas(n) # {} THEN OwningSchemas(n) ELSE AdjacentSchemas(n))}

\* C27 (as stated): in a built graph schema_alias_of(n) is the name of the schema
\* that owns n whenever n is linked to a Schema node, and only without an
\* adjacent Schema node the alias of the root (`@extname@` if the control entity
\* is relocatable, its schema if it has one, nothing otherwise);
\* schema_prefix_for(n) is that alias followed by `.`, or empty without an alias.
C27_SchemaAliasOfOwner ==
    Built =>
        \A n \in Nodes(graph) :
            /\ schema_alias_of(n) \subseteq ExpectedAliases(n)
            /\ schema_prefix_for(n)
                  \subseteq {IF a = None THEN << >> ELSE a[1] \o <<".">> :
                                a \in ExpectedAliases(n)}

----------------------------------------------------------------------------
(* Independence of the order of the input stream *)

\* The orders in which the entities of the input can arrive.
Streams ==
    LET n == Cardinality(DOMAIN input)
    IN {s \in [1..n -> DOMAIN input] : \A i, j \in 1..n : i # j => s[i] # s[j]}

Kinds ==
    {"ExtensionRoot", "CustomSql", "Schema", "Enum", "Type", "Function", "Ord", "Hash",
     "Aggregate", "Trigger"}

RECURSIVE NewKeys(_, _, _)
\* The keys of the usages that no declared type or enum matches, each once, in
\* order, without those that have a placeholder already.
NewKeys(usages, i, seen) ==
    IF i > Len(usages) THEN << >>
    ELSE IF Undeclared(usages[i].ty_id) /\ usages[i].key \notin seen
    THEN << usages[i].key >> \o NewKeys(usages, i + 1, seen \cup {usages[i].key})
    ELSE NewKeys(usages, i + 1, seen)

\* The usages for which the node phase makes placeholders: of a function its
\* arguments and returns, of an aggregate its arguments.
NodePhaseUsages(u) ==
    IF Ent(u).kind = "Function" THEN AllUsages(u)
    ELSE [k \in DOMAIN Ent(u).args |->
            [ty_id |-> Ent(u).args[k].ty_id, key |-> Ent(u).args[k].full_path]]

RECURSIVE WithPlaceholders(_, _, _)
\* The nodes of the entities us[i..], each followed by the placeholders it is the
\* first to need.
WithPlaceholders(us, i, seen) ==
    IF i > Len(us) THEN << >>
    ELSE LET keys == NewKeys(NodePhaseUsages(us[i]), 1, seen)
         IN << EntityNode(us[i]) >>
                \o [k \in DOMAIN keys |-> BuiltinTypeNode(keys[k])]
                \o WithPlaceholders(us, i + 1, seen \cup {keys[k] : k \in DOMAIN keys})

NodesOf(us) == [k \in DOMAIN us |-> EntityNode(us[k])]

\* The node sequence as a function of the collection of entities alone: the
\* control entity, then kind by kind in the order of the initializers, each kind
\* in the total order of its entities, placeholders where they are first needed.
ExpectedNodes ==
    LET roots == Bucket("ExtensionRoot")
        functions == WithPlaceholders(Bucket("Function"), 1, {})
        keys == {functions[k].path : k \in {j \in DOMAIN functions :
                                               functions[j].kind = "BuiltinType"}}
    IN << EntityNode(roots[Len(roots)]) >>
          \o NodesOf(Bucket("CustomSql")) \o NodesOf(Bucket("Schema"))
          \o NodesOf(Bucket("Enum")) \o NodesOf(Bucket("Type"))
          \o functions
          \o NodesOf(Bucket("Ord")) \o NodesOf(Bucket("Hash"))
          \o WithPlaceholders(Bucket("Aggregate"), 1, keys)
          \o NodesOf(Bucket("Trigger"))

\* The index of the node that ExpectedNodes gives to an entity or a placeholder.
ExpectedIndex(node) == CHOOSE n \in DOMAIN ExpectedNodes : ExpectedNodes[n] = node

\* No lookup by identity, module path or name has two candidates.
Unambiguous ==
    \A u, v \in DOMAIN input :
        (u # v /\ Ent(u).kind = Ent(v).kind) =>
            /\ Ent(u).kind \in {"Type", "Enum"} => Ent(u).id # Ent(v).id
            /\ Ent(u).kind = "Schema" => Ent(u).module_path # Ent(v).module_path
            /\ Ent(u).kind \in {"CustomSql", "Function"} =>
                  << Ent(u).name, Ent(u).module_path >> # << Ent(v).name, Ent(v).module_path >>

\* The edge set as a function of the collection alone, for inputs of a control
\* entity, fragments, types, enums and functions: the root before every declared
\* entity, and the type dependencies of every function.
ExpectedEdges ==
    {<< graph_root, n, RequiredBy >> :
        n \in {m \in Nodes(graph) : m # graph_root /\ ~IsBuiltin(m)}}
    \cup UNION {BagToSet(TierEdges(f, ArgumentUsages(f), RequiredByArg, 1)
                            (+) TierEdges(f, ReturnUsages(f), RequiredByReturn, 1)
                            (+) FragmentEdges(f, AllUsages(f), 1)) :
                   f \in FunctionsOfInput}

----------------------------------------------------------------------------
(* One fragment as both anchors *)

\* Fragment w is marked bootstrap and finalize, and no other fragment is marked.
OnlyAnchor(w) ==
    /\ w \in Fragments
    /\ Bootstraps = {w}
    /\ Finalizes = {w}

\* The declared entities of the input other than the control entities and w.
OthersThan(w) == {u \in DOMAIN input : Ent(u).kind # "ExtensionRoot" /\ u # w}

\* Entities whose own initializer and connector cannot fail: they refer to
\* nothing.
NeedsNothing(u) == Ent(u).kind \in {"Schema", "Type", "Enum", "Trigger"}

\* C29: for a fragment marked both bootstrap and finalize (and no other fragment
\* marked), the marking is no error: with a control entity and only entities that
\* refer to nothing, build succeeds.  Every built graph has no edge from the
\* fragment to itself and, for every other declared entity X that is not the
\* control entity, both the edge fragment -> X and the edge X -> fragment; so
\* whenever there is such an X, to_sql fails, naming a node on a cycle.
C29_DoubleAnchorCycles ==
    \A w \in DOMAIN input :
        OnlyAnchor(w) =>
            /\ (pc = "done" /\ HasRoot /\ \A u \in OthersThan(w) : NeedsNothing(u)) => Built
            /\ Built =>
                  /\ \A e \in Edges(graph) : ~(e[1] = NodeOf(w) /\ e[2] = NodeOf(w))
                  /\ graph_bootstrap = Some(NodeOf(w)) /\ graph_finalize = Some(NodeOf(w))
                  /\ \A u \in OthersThan(w) :
                        /\ HasEdge(NodeOf(w), NodeOf(u), RequiredBy)
                        /\ HasEdge(NodeOf(u), NodeOf(w), RequiredBy)
                  /\ (pc = "done" /\ OthersThan(w) # {}) =>
                        /\ sql_result.tag = "Err"
                        /\ sql_result.node \in CycleNodes
                        /\ {NodeOf(w)} \cup {NodeOf(u) : u \in OthersThan(w)}
                              \subseteq CycleNodes

\* a built graph of a doubly marked fragment, a function and a type, whose
\* linearization failed
C29_Witness ==
    /\ pc = "done" /\ Built /\ sql_result.tag = "Err"
    /\ \E w \in DOMAIN input :
          /\ OnlyAnchor(w)
          /\ \E u, v \in OthersThan(w) :
                /\ Ent(u).kind = "Function" /\ Ent(v).kind = "Type"
                /\ HasEdge(NodeOf(w), NodeOf(u), RequiredBy)
                /\ HasEdge(NodeOf(u), NodeOf(w), RequiredBy)

----------------------------------------------------------------------------
(* The edges of a builtin placeholder *)

\* The node of the function or aggregate whose usage made placeholder n: the
\* node phase adds a placeholder right after the entity that is first to need it
\* and after the placeholders that entity made before.
Creator(n) ==
    CHOOSE m \in Nodes(graph) :
        /\ m < n
        /\ ~IsBuiltin(m)
        /\ \A k \in (m + 1)..n : IsBuiltin(k)

\* C30: in a built graph no edge goes into a builtin placeholder, and every
\* placeholder has an edge of kind RequiredByArg or RequiredByReturn into the
\* function or aggregate whose usage made it; so no placeholder is on a cycle
\* and none is without an edge.
C30_PlaceholderFeedsItsUser ==
    Built =>
        \A n \in BuiltinNodes :
            /\ \A e \in Edges(graph) : e[2] # n
            /\ graph.nodes[Creator(n)].kind \in {"Function", "Aggregate"}
            /\ graph.nodes[n].path \in PlaceholderKeys(graph.nodes[Creator(n)].item)
            /\ \/ HasEdge(n, Creator(n), RequiredByArg)
               \/ HasEdge(n, Creator(n), RequiredByReturn)
            /\ n \notin CycleNodes

\* a built graph with a placeholder made by an aggregate and one made by a
\* function for a return usage
C30_Witness ==
    /\ Built
    /\ \E n, m \in BuiltinNodes :
          /\ graph.nodes[Creator(n)].kind = "Aggregate"
          /\ HasEdge(n, Creator(n), RequiredByArg)
          /\ graph.nodes[Creator(m)].kind = "Function"
          /\ HasEdge(m, Creator(m), RequiredByReturn)

====
